---- MODULE Spec2Model ----
(***************************************************************************)
(* AURA backend: session store, order linkage, action ledger and the       *)
(* process_message pipeline, modelled from src/backend.                    *)
(*                                                                         *)
(* Python values are records [t, v]: t is the Python type, v the payload.  *)
(* A str read character by character (an inbound message, a slot, an id)   *)
(* is a sequence of one-character strings; a fixed literal that the code   *)
(* only passes around is held as a sequence of one chunk.                  *)
(***************************************************************************)
EXTENDS Integers, Sequences, FiniteSets, TLC

\* ------------------------------------------------------------- Python values
None == [t |-> "NoneType", v |-> <<>>]
Str(s) == [t |-> "str", v |-> s]
List(l) == [t |-> "list", v |-> l]

\* Python truthiness of None, str and list: empty is falsy
Truthy(x) == x.t # "NoneType" /\ Len(x.v) > 0

\* ------------------------------------------------------------- characters
\* The alphabet is Latin-1, U+0000 to U+00FF. A character above U+00FF is
\* written by its code point, "U+0178"; none occurs in a message of the
\* model, two are results of str.upper().
\* \d of a str pattern matches the Unicode decimal digits: up to U+00FF these
Digits == {"0", "1", "2", "3", "4", "5", "6", "7", "8", "9"}
\* str.isspace(), the characters str.strip() removes and \s matches: up to
\* U+00FF the tab, line feed, vertical tab, form feed, carriage return,
\* U+001C to U+001F, the space, U+0085 and U+00A0
Whitespace == {" ", "\t", "\n", "\r", "\f", "", "", "", "", "",
               "", " "}
UpperLetters == <<"A","B","C","D","E","F","G","H","I","J","K","L","M",
                  "N","O","P","Q","R","S","T","U","V","W","X","Y","Z",
                  "À","Á","Â","Ã","Ä","Å","Æ","Ç","È","É","Ê","Ë","Ì","Í","Î",
                  "Ï","Ð","Ñ","Ò","Ó","Ô","Õ","Ö","Ø","Ù","Ú","Û","Ü","Ý","Þ">>
LowerLetters == <<"a","b","c","d","e","f","g","h","i","j","k","l","m",
                  "n","o","p","q","r","s","t","u","v","w","x","y","z",
                  "à","á","â","ã","ä","å","æ","ç","è","é","ê","ë","ì","í","î",
                  "ï","ð","ñ","ò","ó","ô","õ","ö","ø","ù","ú","û","ü","ý","þ">>

\* str.lower() on one character
LowerChar(c) ==
    IF \E i \in 1..Len(UpperLetters) : UpperLetters[i] = c
    THEN LowerLetters[CHOOSE i \in 1..Len(UpperLetters) : UpperLetters[i] = c]
    ELSE c
\* str.upper() on one character, as the string it gives: the sharp s gives
\* two characters, the micro sign and the y with diaeresis leave Latin-1
UpperChar(c) ==
    IF \E i \in 1..Len(LowerLetters) : LowerLetters[i] = c
    THEN <<UpperLetters[CHOOSE i \in 1..Len(LowerLetters) : LowerLetters[i] = c]>>
    ELSE CASE c = "ß" -> <<"S", "S">>
           [] c = "µ" -> <<"U+039C">>
           [] c = "ÿ" -> <<"U+0178">>
           [] OTHER -> <<c>>
lower(s) == [i \in 1..Len(s) |-> LowerChar(s[i])]
RECURSIVE upper(_)
upper(s) == IF s = <<>> THEN <<>> ELSE UpperChar(Head(s)) \o upper(Tail(s))

\* str.strip(): drop leading and trailing whitespace
strip(s) ==
    LET keep == {i \in 1..Len(s) : s[i] \notin Whitespace}
    IN  IF keep = {} THEN <<>>
        ELSE LET lo == CHOOSE i \in keep : \A j \in keep : i <= j
                 hi == CHOOSE i \in keep : \A j \in keep : j <= i
             IN  SubSeq(s, lo, hi)

\* str.endswith(suffix)
endswith(s, suffix) ==
    /\ Len(s) >= Len(suffix)
    /\ SubSeq(s, Len(s) - Len(suffix) + 1, Len(s)) = suffix

\* str.startswith(prefix)
startswith(s, prefix) ==
    /\ Len(s) >= Len(prefix)
    /\ SubSeq(s, 1, Len(prefix)) = prefix

\* the Python operator `sub in s` on strings
contains(s, sub) ==
    \E i \in 1..(Len(s) - Len(sub) + 1) : SubSeq(s, i, i + Len(sub) - 1) = sub

\* str.replace(ch, "") for a one-character ch
remove(s, ch) == SelectSeq(s, LAMBDA c : c # ch)


\* ------------------------------------------------------------- order lookup
\* a content of data/orders.json: the order collection
Orders ==
    << [order_id |-> Str(<<"O","R","D","2","0","1">>), customer_name |-> Str(<<"Asha Rao">>),
        customer_email |-> Str(<<"asha@example.com">>),
        customer_phone |-> Str(<<"555-0101">>), product_id |-> Str(<<"P-11">>),
        product_name |-> Str(<<"Aura Blender">>), serial_number |-> Str(<<"SN-1">>),
        purchase_date |-> Str(<<"2025-11-02">>), warranty_years |-> Str(<<"2">>)],
       [order_id |-> Str(<<"O","R","D","3","0","1">>), customer_name |-> Str(<<"Ben Ott">>),
        customer_email |-> None,
        customer_phone |-> None, product_id |-> Str(<<"P-22">>),
        product_name |-> Str(<<"Aura Kettle">>), serial_number |-> Str(<<"SN-2">>),
        purchase_date |-> Str(<<"2025-12-01">>), warranty_years |-> Str(<<"1">>)] >>

OrderFields == {"order_id", "customer_name", "customer_email", "customer_phone",
                "product_id", "product_name", "serial_number", "purchase_date",
                "warranty_years"}

\* the collection once the file has been rewritten: ORD201 is gone and
\* ORD301 is the order of another customer
Rewritten ==
    << [Orders[2] EXCEPT !.customer_name = Str(<<"Cy Tan">>),
                         !.customer_email = Str(<<"cy@example.com">>)] >>

\* data/orders.json (line 12) at a call: state is "missing" (no file), "ok"
\* (a JSON array, orders) or "corrupt" (open or json.load raises on it).
\* The program never writes the file; what it holds is read anew at every
\* call of load_orders.
OrdersFile == [state |-> "ok", orders |-> Orders]
RewrittenFile == [state |-> "ok", orders |-> Rewritten]
NoOrdersFile == [state |-> "missing", orders |-> <<>>]
BadOrdersFile == [state |-> "corrupt", orders |-> <<>>]

\* the file of each case, by the name an environment gives the case
OrderFiles ==
    [two_orders |-> OrdersFile, rewritten |-> RewrittenFile,
     missing |-> NoOrdersFile, corrupt |-> BadOrdersFile]

\* load_orders: [] without the file (lines 18-20) and when reading it
\* raises (lines 28-30), else what the file holds
load_orders(file) == IF file.state = "ok" THEN file.orders ELSE <<>>

\* positions where r'ORD[-\s]?(\d+)' (re.IGNORECASE) matches
OrdMatchAt(s, i) ==
    /\ i + 3 <= Len(s)
    /\ lower(SubSeq(s, i, i + 2)) = <<"o","r","d">>
    /\ \/ s[i + 3] \in Digits
       \/ /\ s[i + 3] \in ({"-"} \cup Whitespace)
          /\ i + 4 <= Len(s)
          /\ s[i + 4] \in Digits

\* group(1) of the match at i: the maximal run of digits
OrdDigits(s, i) ==
    LET d0 == IF s[i + 3] \in Digits THEN i + 3 ELSE i + 4
        d1 == CHOOSE j \in d0..Len(s) :
                 /\ \A k \in d0..j : s[k] \in Digits
                 /\ (j = Len(s) \/ s[j + 1] \notin Digits)
    IN  SubSeq(s, d0, d1)

\* an extract_order_id_from_message that returns the digits it captured
extract_order_digits(message) ==
    IF message.t # "str" THEN None
    ELSE LET s == message.v
             hits == {i \in 1..Len(s) : OrdMatchAt(s, i)}
         IN  IF hits = {} THEN None
             ELSE Str(OrdDigits(s, CHOOSE h \in hits : \A g \in hits : h <= g))

\* extract_order_id_from_message. The second and third patterns each contain
\* ORD[-\s]?\d+, so whenever one of them matches the first pattern has
\* matched before it and decided the result.
extract_order_id_from_message(message) ==
    IF message.t # "str" THEN None   \* re.search raises TypeError, caught
    ELSE LET s == message.v
             hits == {i \in 1..Len(s) : OrdMatchAt(s, i)}
         IN  IF hits = {} THEN None
             ELSE LET i == CHOOSE h \in hits : \A g \in hits : h <= g
                      cleaned == upper(remove(remove(OrdDigits(s, i), " "), "-"))
                  IN  IF startswith(cleaned, <<"O","R","D">>) THEN Str(cleaned)
                      ELSE Str(<<"O","R","D">> \o cleaned)

\* get_order_by_id: first order whose id equals the argument, ignoring case.
\* On an argument that is not a str, order_id.strip() raises AttributeError,
\* caught at line 49.
get_order_by_id(file, order_id) ==
    IF order_id.t # "str" THEN None
    ELSE LET clean == upper(strip(order_id.v))
             orders == load_orders(file)
             hits == {k \in 1..Len(orders) : upper(orders[k].order_id.v) = clean}
         IN  IF hits = {} THEN None
             ELSE [t |-> "dict", v |-> orders[CHOOSE k \in hits : \A g \in hits : k <= g]]


\* ------------------------------------------------------------- session store
\* The store functions take the SESSION_STATE dict S and return the new one.
\* created_at and the history timestamps (wall-clock reads) are left out.
ValidStates == {"collecting_info", "ready_for_action", "action_executed", "completed"}

NewSession(session_id) ==
    [session_id |-> session_id,
     order_id |-> None, customer_name |-> None, customer_email |-> None,
     customer_phone |-> None, product_id |-> None, product_name |-> None,
     model_number |-> None, serial_number |-> None, purchase_date |-> None,
     warranty_years |-> None, issue_description |-> None,
     reason_for_action |-> None, purchase_date_confirmed |-> None,
     preferred_datetime |-> None, additional_details |-> None,
     required_info_collected |-> FALSE,
     conversation_history |-> <<>>,
     conversation_state |-> "collecting_info",
     action_id |-> None, action_type |-> None]

\* SESSION_STATE[session_id] = {...} on a dict
Put(S, k, val) == [x \in DOMAIN S \cup {k} |-> IF x = k THEN val ELSE S[x]]

create_session(S, session_id) ==
    IF session_id \in DOMAIN S THEN S ELSE Put(S, session_id, NewSession(session_id))

\* a get_session that starts the session afresh each time
get_session_afresh(S, session_id) == Put(S, session_id, NewSession(session_id))

\* get_session creates the session when it is absent
get_session(S, session_id) == create_session(S, session_id)

\* d.update(data) on a dict d: the keys of data are set, new ones added
Update(d, data) ==
    [f \in DOMAIN d \cup DOMAIN data |-> IF f \in DOMAIN data THEN data[f] ELSE d[f]]

\* SESSION_STATE[session_id][key] = value: the key is added when absent
update_session(S, session_id, key, value) ==
    LET T == create_session(S, session_id)
    IN  [T EXCEPT ![session_id] = Put(@, key, value)]

\* an update_session_bulk that writes the keys into every session
update_session_bulk_shared(S, session_id, data) ==
    LET T == create_session(S, session_id)
    IN  [x \in DOMAIN T |-> Update(T[x], data)]

\* data: a record of the keys to overwrite
update_session_bulk(S, session_id, data) ==
    LET T == create_session(S, session_id)
    IN  [T EXCEPT ![session_id] = Update(@, data)]

\* an add_to_conversation_history that puts the entry first
add_to_conversation_history_front(S, session_id, role, message) ==
    LET T == create_session(S, session_id)
    IN  [T EXCEPT ![session_id].conversation_history =
            <<[role |-> role, message |-> message]>> \o @]

add_to_conversation_history(S, session_id, role, message) ==
    LET T == create_session(S, session_id)
    IN  [T EXCEPT ![session_id].conversation_history =
            Append(@, [role |-> role, message |-> message])]

\* get_session_context: the populated subset, as the list of its lines
get_session_context(S, session_id) ==
    LET session == get_session(S, session_id)[session_id]
        part(label, key) ==
            IF Truthy(session[key]) THEN <<[label |-> label, value |-> session[key]]>>
            ELSE <<>>
    IN  part("Order ID", "order_id") \o part("Customer", "customer_name")
        \o part("Product", "product_name") \o part("Model", "model_number")
        \o part("Issue", "issue_description")

\* a set_conversation_state that takes any state
set_conversation_state_unchecked(S, session_id, state) ==
    update_session(S, session_id, "conversation_state", state)

set_conversation_state(S, session_id, state) ==
    IF state \notin ValidStates THEN S
    ELSE update_session(S, session_id, "conversation_state", state)

\* a mark_action_completed that creates the session it does not find
mark_action_completed_creating(S, session_id, action_id, action_type) ==
    [create_session(S, session_id) EXCEPT ![session_id] =
        [@ EXCEPT !.action_id = action_id,
                  !.action_type = action_type,
                  !.conversation_state = "action_executed"]]

\* a mark_action_completed that forgets the action type
mark_action_completed_untyped(S, session_id, action_id, action_type) ==
    IF session_id \notin DOMAIN S THEN S
    ELSE [S EXCEPT ![session_id] = [@ EXCEPT !.action_id = action_id,
                                             !.conversation_state = "action_executed"]]

\* a mark_action_completed that leaves conversation_state alone
mark_action_completed_stateless(S, session_id, action_id, action_type) ==
    IF session_id \notin DOMAIN S THEN S
    ELSE [S EXCEPT ![session_id] = [@ EXCEPT !.action_id = action_id,
                                             !.action_type = action_type]]

\* a mark_action_completed that closes the conversation
mark_action_completed_closing(S, session_id, action_id, action_type) ==
    IF session_id \notin DOMAIN S THEN S
    ELSE [S EXCEPT ![session_id] =
            [@ EXCEPT !.action_id = action_id,
                      !.action_type = action_type,
                      !.conversation_state = "completed"]]

mark_action_completed(S, session_id, action_id, action_type) ==
    IF session_id \notin DOMAIN S THEN S
    ELSE [S EXCEPT ![session_id] =
            [@ EXCEPT !.action_id = action_id,
                      !.action_type = action_type,
                      !.conversation_state = "action_executed"]]

PromptOrderId == <<"To process your request, I'll need your **Order ID** (e.g., ORD301).">>
PromptRefundReason == <<"Could you tell me the reason for your refund request?">>
PromptReplacementIssue == <<"What issue are you experiencing with the product?">>
PromptServiceDate ==
    <<"When would you prefer the service? Please provide a date and time (e.g., 'December 24, 2025 at 2:00 PM').">>

\* a slot check that asks nothing of a session whose action was executed
MissingInfoByState(session, action_type) ==
    IF session.conversation_state = "action_executed"
    THEN [missing |-> <<>>, complete |-> TRUE, prompt |-> Str(<<>>)]
    ELSE [missing |-> IF ~Truthy(session.order_id) THEN <<"order_id">> ELSE <<>>,
          complete |-> Truthy(session.order_id),
          prompt |-> Str(IF ~Truthy(session.order_id) THEN PromptOrderId ELSE <<>>)]

\* a slot check that looks at the type-specific slot before order_id
MissingInfoSecondFirst(session, action_type) ==
    LET m1 == IF ~Truthy(session.order_id) THEN <<"order_id">> ELSE <<>>
        m2 == IF action_type \in {"initiate_refund", "initiate_replacement"}
                 /\ ~Truthy(session.reason_for_action)
              THEN <<"reason_for_action">> ELSE <<>>
        m3 == IF action_type = "book_service" /\ ~Truthy(session.preferred_datetime)
              THEN <<"preferred_datetime">> ELSE <<>>
        missing == m2 \o m3 \o m1
        prompt ==
            IF m2 # <<>>
            THEN IF action_type = "initiate_refund" THEN PromptRefundReason
                 ELSE PromptReplacementIssue
            ELSE IF m3 # <<>> THEN PromptServiceDate
            ELSE IF m1 # <<>> THEN PromptOrderId
            ELSE <<>>
    IN  [missing |-> missing, complete |-> (Len(missing) = 0), prompt |-> Str(prompt)]

\* the body of check_missing_info_for_action, on the session it reads
MissingInfo(session, action_type) ==
    LET m1 == IF ~Truthy(session.order_id) THEN <<"order_id">> ELSE <<>>
        m2 == IF action_type \in {"initiate_refund", "initiate_replacement"}
                 /\ ~Truthy(session.reason_for_action)
              THEN <<"reason_for_action">> ELSE <<>>
        m3 == IF action_type = "book_service" /\ ~Truthy(session.preferred_datetime)
              THEN <<"preferred_datetime">> ELSE <<>>
        missing == m1 \o m2 \o m3
        has(f) == \E i \in 1..Len(missing) : missing[i] = f
        prompt ==
            IF has("order_id") THEN PromptOrderId
            ELSE IF has("reason_for_action")
                 THEN IF action_type = "initiate_refund" THEN PromptRefundReason
                      ELSE IF action_type = "initiate_replacement"
                           THEN PromptReplacementIssue ELSE <<>>
            ELSE IF has("preferred_datetime") THEN PromptServiceDate
            ELSE <<>>
    IN  [missing |-> missing, complete |-> (Len(missing) = 0), prompt |-> Str(prompt)]


\* check_missing_info_for_action: reads the session through get_session
check_missing_info_for_action(S, session_id, action_type) ==
    LET T == get_session(S, session_id)
    IN  [store |-> T, info |-> MissingInfo(T[session_id], action_type)]

\* ------------------------------------------------------------- agents
ValidIntents == {"troubleshoot", "refund", "replacement", "service_booking",
                 "order_status", "product_information", "general_query"}

\* an intent_agent whose failure shows in the label
intent_agent_unguarded(reply) ==
    IF reply = "RAISE" THEN "error"
    ELSE IF reply \notin ValidIntents THEN "general_query"
    ELSE reply

\* intent_agent, on what the model call gives: "RAISE" when the model is not
\* initialised or the call raises, else the stripped lower-cased reply
intent_agent(reply) ==
    IF reply = "RAISE" THEN "general_query"
    ELSE IF reply \notin ValidIntents THEN "general_query"
    ELSE reply

\* what a collaborator call that raised leaves in place of its value
Raised == [t |-> "raise", v |-> <<>>]

\* retrieval_agent, on what search_knowledge gives: the joined documents,
\* or "" when the search raised
retrieval_agent(found) == IF found.t = "raise" THEN Str(<<>>) ELSE found

\* an action_agent that lets an action label through
action_agent_passing(intent) ==
    CASE intent = "refund" -> "initiate_refund"
      [] intent = "replacement" -> "initiate_replacement"
      [] intent = "service_booking" -> "book_service"
      [] intent \in {"initiate_refund", "initiate_replacement", "book_service"} -> intent
      [] OTHER -> "none"

\* action_agent: the fixed intent_to_action table, default "none"
action_agent(intent) ==
    CASE intent = "refund" -> "initiate_refund"
      [] intent = "replacement" -> "initiate_replacement"
      [] intent = "service_booking" -> "book_service"
      [] OTHER -> "none"

\* action_confirmation_agent: the model's reply, or the fixed fallback when
\* the model is not initialised (lines 212-213) or the call raises
ConfirmFallback(action_type) == Str(<<"To proceed with ", action_type, ", please confirm.">>)
action_confirmation_agent(action_type, reply) ==
    IF action_type = "none" THEN None
    ELSE IF reply \in {"NO_MODEL", "RAISE"} THEN ConfirmFallback(action_type)
    ELSE Str(<<reply>>)

\* ------------------------------------------------------------- action ledger
ActionTypes == {"initiate_refund", "initiate_replacement", "book_service"}

\* datetime.now().strftime("%Y%m%d") on consecutive days
Dates == << <<"2","0","2","5","1","2","3","0">>, <<"2","0","2","5","1","2","3","1">>, <<"2","0","2","6","0","1","0","1">>, <<"2","0","2","6","0","1","0","2">> >>
DateStr(day) == Dates[day]

Prefix(action_type) ==
    CASE action_type = "initiate_refund" -> <<"R","E","F">>
      [] action_type = "initiate_replacement" -> <<"R","E","P">>
      [] action_type = "book_service" -> <<"S","R","V">>

DigitChars == <<"0","1","2","3","4","5","6","7","8","9">>

\* str(n) for n >= 0
RECURSIVE Decimal(_)
Decimal(n) == IF n < 10 THEN <<DigitChars[n + 1]>>
              ELSE Decimal(n \div 10) \o <<DigitChars[(n % 10) + 1]>>

\* f"{n:04d}": zero-padded to a minimum width of four
Format04d(n) ==
    LET d == Decimal(n)
    IN  IF Len(d) >= 4 THEN d ELSE [i \in 1..(4 - Len(d)) |-> "0"] \o d

\* A ledger file: state is "missing" (no file), "ok" (a JSON array, records)
\* or "corrupt" (json.load raises on it).
\* json.load of the file: rd = "fail" is an I/O error raised by open/read
ReadFails(file, rd) == file.state = "corrupt" \/ (file.state = "ok" /\ rd = "fail")

\* generate_action_id on the ledger file of action_type. datetime.now() is
\* read at line 242 (day) and, when the read of the file raises, again at
\* line 272 (err_day)
generate_action_id(file, day, err_day, action_type, rd) ==
    LET date_str == DateStr(day)
    IN  IF action_type \notin ActionTypes
        THEN <<"A","C","T","I","O","N","-">> \o date_str \o <<"-","0","0","0","1">>
        ELSE IF file.state = "missing"
        THEN Prefix(action_type) \o <<"-">> \o date_str \o <<"-">> \o Format04d(1)
        ELSE IF ReadFails(file, rd)
        THEN <<"E","R","R","-">> \o DateStr(err_day) \o <<"-","0","0","0","0">>
        ELSE LET today_records ==
                     SelectSeq(file.records, LAMBDA r : contains(r.id.v, date_str))
                 sequence == Len(today_records) + 1
             IN  Prefix(action_type) \o <<"-">> \o date_str \o <<"-">> \o Format04d(sequence)

\* the write-back of save_action_data: wr = "ok", "open_fails" (the file is
\* left as it was) or "dump_fails" (opened for writing, so truncated, and
\* json.dump raised before the array was complete)
WriteFile(file, records, wr) ==
    CASE wr = "ok" -> [state |-> "ok", records |-> records]
      [] wr = "open_fails" -> file
      [] wr = "dump_fails" -> [state |-> "corrupt", records |-> <<>>]

\* json.dump raises TypeError on a value that is not a str, a number, a
\* bool, None, a list, a tuple or a dict, such as a set, wherever the value
\* is: in the record, in a list or a tuple, under a key of a dict. A list or
\* a tuple of user_details holds values [t, v]; the keys of a dict are str.
JsonScalars == {"NoneType", "str", "int", "float", "bool"}
RECURSIVE Json(_)
Json(x) ==
    CASE x.t \in JsonScalars -> TRUE
      [] x.t \in {"list", "tuple"} -> \A i \in 1..Len(x.v) : Json(x.v[i])
      [] x.t = "dict" -> \A k \in DOMAIN x.v : Json(x.v[k])
      [] OTHER -> FALSE

\* the fields of a record that execute_action copies from user_details
DetailFields == {"product_name", "user_email", "user_name", "user_address",
                 "contact_number", "service_center", "scheduled_date", "time_slot"}

\* json.dump(records) writes the record: every value it holds is of a JSON
\* type (the id, the date and the status are strings)
Serializable(action_data) ==
    \A f \in DetailFields \cap DOMAIN action_data : Json(action_data[f])

\* lines 303-304 of save_action_data: what open(file_path, 'w') and
\* json.dump do, given the file system's part wr
Dump(action_data, wr) ==
    IF wr = "ok" /\ ~Serializable(action_data) THEN "dump_fails" ELSE wr

\* lines 293-297 of save_action_data: the records read, none without a file
ReadRecords(file) == IF file.state = "missing" THEN <<>> ELSE file.records

\* a save_action_data that appends the record twice
save_action_data_twice(file, action_type, action_data, rd, wr) ==
    IF action_type \notin ActionTypes THEN [file |-> file, ok |-> FALSE]
    ELSE IF ReadFails(file, rd) THEN [file |-> file, ok |-> FALSE]
    ELSE [file |-> WriteFile(file, Append(Append(ReadRecords(file), action_data),
                                          action_data), Dump(action_data, wr)),
          ok |-> (Dump(action_data, wr) = "ok")]

\* save_action_data: read the whole file, append, write the whole file
save_action_data(file, action_type, action_data, rd, wr) ==
    IF action_type \notin ActionTypes THEN [file |-> file, ok |-> FALSE]
    ELSE IF ReadFails(file, rd) THEN [file |-> file, ok |-> FALSE]
    ELSE [file |-> WriteFile(file, Append(ReadRecords(file), action_data),
                             Dump(action_data, wr)),
          ok |-> (Dump(action_data, wr) = "ok")]

\* dict.get(key, default) on user_details
Get(d, key, default) == IF key \in DOMAIN d.v THEN d.v[key] ELSE default

\* `x.get(k, dflt) if user_details else dflt`
Detail(user_details, key, default) ==
    IF user_details.t = "dict" /\ DOMAIN user_details.v # {}
    THEN Get(user_details, key, default) ELSE default

\* user_details on which .get raises: truthy and not a dict
BadDetails(user_details) == user_details.t # "dict" /\ Truthy(user_details)

\* the record execute_action builds, day being the date datetime.now()
\* gives at line 335, 346 or 362 (the time of day of "date" is left out)
ActionData(action, action_id, user_details, day) ==
    IF action = "book_service"
    THEN [id |-> Str(action_id), service_id |-> Str(action_id),
          product_name |-> Detail(user_details, "product_name", Str(<<"N/A">>)),
          user_email |-> Detail(user_details, "email", Str(<<>>)),
          user_name |-> Detail(user_details, "name", Str(<<>>)),
          user_address |-> Detail(user_details, "address", Str(<<>>)),
          contact_number |-> Detail(user_details, "phone", Str(<<>>)),
          service_center |-> Detail(user_details, "service_center", Str(<<"Nearest Center">>)),
          scheduled_date |-> Detail(user_details, "scheduled_date", Str(<<"TBD">>)),
          time_slot |-> Detail(user_details, "time_slot", Str(<<"TBD">>)),
          date |-> DateStr(day)]
    ELSE IF action = "initiate_refund"
    THEN [id |-> Str(action_id), refund_id |-> Str(action_id),
          product_name |-> Detail(user_details, "product_name", Str(<<"N/A">>)),
          user_email |-> Detail(user_details, "email", Str(<<>>)),
          user_name |-> Detail(user_details, "name", Str(<<>>)),
          date |-> DateStr(day),
          status |-> "processing"]
    ELSE [id |-> Str(action_id), replacement_id |-> Str(action_id),
          product_name |-> Detail(user_details, "product_name", Str(<<"N/A">>)),
          user_email |-> Detail(user_details, "email", Str(<<>>)),
          user_name |-> Detail(user_details, "name", Str(<<>>)),
          date |-> DateStr(day),
          status |-> "processing"]

\* lines 372-385 of execute_action: the result dict, given what
\* save_action_data did
Executed(L, action, action_id, action_data, saved) ==
    [ledger |-> [L EXCEPT ![action] = saved.file],
     result |-> [t |-> "dict",
                 v |-> [action |-> action,
                        action_id |-> Str(action_id),
                        status |-> IF saved.ok THEN "success" ELSE "partial",
                        data |-> action_data]]]

\* lines 327-373 of execute_action: build the record and save it
BuildAndSave(L, action, action_id, action_data, io) ==
    Executed(L, action, action_id, action_data,
             save_action_data(L[action], action, action_data, io.save_read, io.save_write))

\* str(e) of the handler of lines 387-393: the .get of a value that is not
\* a dict, or whatever else raised while the record was built
BuildError(user_details) ==
    IF BadDetails(user_details) THEN "AttributeError" ELSE "RuntimeError"

\* lines 324-393 of execute_action, given the id generate_action_id returned
\* and the day datetime.now() gives when the record is built
ExecuteWithId(L, day, action, user_details, io, action_id) ==
    IF BadDetails(user_details) \/ io.build = "raise"
    THEN [ledger |-> L,
          result |-> [t |-> "dict", v |-> [action |-> action, status |-> "failed",
                                          error |-> BuildError(user_details)]]]
    ELSE BuildAndSave(L, action, action_id,
                      ActionData(action, action_id, user_details, day), io)

\* The call reads datetime.now() at line 242, on a failing read of the file
\* again at line 272, and then at line 335, 346 or 362. io.clock tells when
\* midnight passes: "same" not during the call, "in_id" between line 242 and
\* the return of generate_action_id, "after_id" between that return and the
\* record.
ErrDay(day, io) == IF io.clock = "in_id" THEN day + 1 ELSE day
RecordDay(day, io) == IF io.clock = "same" THEN day ELSE day + 1

\* execute_action on the ledgers L (one file per action type), day being
\* the date when the call starts. io gives the outcome of each file
\* operation, [gen_read, save_read, save_write], build: "raise" when a
\* statement of lines 327-370 raises, and clock.
\* Returns the ledgers after the call and the dict (or None) it returns.
execute_action(L, day, action, user_details, io) ==
    IF action = "none" THEN [ledger |-> L, result |-> None]
    ELSE IF action \notin ActionTypes
    THEN [ledger |-> L,
          result |-> [t |-> "dict", v |-> [action |-> action, status |-> "unknown"]]]
    ELSE ExecuteWithId(L, RecordDay(day, io), action, user_details, io,
                       generate_action_id(L[action], day, ErrDay(day, io), action,
                                          io.gen_read))

\* ------------------------------------------------------------- sampled messages
MsgOrder201 == Str(<<"M","y"," ","o","r","d","e","r"," ","i","s"," ","O","R","D","2","0","1">>)
MsgBroke301 ==
    Str(<<"I","t"," ","b","r","o","k","e"," ","M","o","n","d","a","y",","," ","o","r","d","-","3","0","1">>)
MsgWhy == Str(<<"W","h","y","?">>)
MsgOrd301Q == Str(<<"o","r","d","-","3","0","1","?">>)
MsgTomorrow == Str(<<"t","o","m","o","r","r","o","w"," ","2","p","m">>)
MsgBlank == Str(<<" "," "," "," "," "," "," "," "," "," "," ">>)
MsgList == List(<<"a","b","c","d","e","f","g","h","i","j","k">>)
Messages == {MsgOrder201, MsgBroke301, MsgOrd301Q, MsgWhy, MsgTomorrow, MsgBlank,
             MsgList, None}

\* a message with an order id that no order has
MsgOrd999 == Str(<<"O","R","D","9","9","9">>)
\* messages that end in a space: a statement, and a question
MsgPadded == Str(<<"o","r","d","-","3","0","1"," ","b","r","o","k","e"," ">>)
MsgAsked == Str(<<"o","r","d","-","3","0","1"," ","b","r","o","k","e","?"," ">>)

datetime_keywords ==
    { <<"t","o","m","o","r","r","o","w">>, <<"m","o","n","d","a","y">>,
      <<"t","u","e","s","d","a","y">>, <<"w","e","d","n","e","s","d","a","y">>,
      <<"t","h","u","r","s","d","a","y">>, <<"f","r","i","d","a","y">>,
      <<"s","a","t","u","r","d","a","y">>, <<"s","u","n","d","a","y">>,
      <<"n","e","x","t"," ","w","e","e","k">>, <<"p","m">>, <<"a","m">>,
      <<"d","e","c","e","m","b","e","r">>, <<"j","a","n","u","a","r","y">> }

\* the longest message the /chat endpoint takes
MaxMessageLen == 5000

\* messages the /chat endpoint refuses: the empty one, one that is too long
MsgEmpty == Str(<<>>)
MsgLong == Str([i \in 1..(MaxMessageLen + 1) |-> "a"])

\* What the string functions give on the sampled messages, computed once.
Tabled == Messages \cup {MsgOrd999, MsgPadded, MsgAsked}
StripOf == [m \in Tabled \cup {MsgEmpty, MsgLong} |-> strip(m.v)]
LowerOf == [m \in Tabled |-> lower(m.v)]
ExtractOf == [m \in Tabled |-> extract_order_id_from_message(m)]
Stripped(m) == IF m \in DOMAIN StripOf THEN StripOf[m] ELSE strip(m.v)
Lowered(m) == IF m \in Tabled THEN LowerOf[m] ELSE lower(m.v)
Extracted(m) == IF m \in Tabled THEN ExtractOf[m] ELSE extract_order_id_from_message(m)
FoundOf == [case \in DOMAIN OrderFiles |-> [m \in Tabled |->
              IF Truthy(ExtractOf[m]) THEN get_order_by_id(OrderFiles[case], ExtractOf[m])
              ELSE None]]
KeywordOf == [m \in Tabled |->
                m.t = "str" /\ \E keyword \in datetime_keywords : contains(LowerOf[m], keyword)]

\* ------------------------------------------------------------- notifications
\* Which notifier the pipeline calls and with what; its outcome ("sent",
\* "not_sent" or "RAISE") is logged by the caller and changes nothing else.
NotifyCall(action, action_id, action_result, user_details, outcome) ==
    IF action = "book_service"
    THEN [fn |-> "send_service_booking_confirmation_email", id |-> action_id,
          product_name |-> Get(action_result, "data", [product_name |-> None]).product_name,
          to |-> Get(user_details, "email", None), outcome |-> outcome]
    ELSE [fn |-> IF action = "initiate_refund" THEN "send_refund_confirmation_email"
                 ELSE "send_replacement_confirmation_email",
          id |-> action_id,
          product_name |-> Get(user_details, "product_name", Str(<<"Your Product">>)),
          to |-> Get(user_details, "email", None), outcome |-> outcome]

\* ------------------------------------------------------------- orchestrator
\* process_message runs as six stages over a frame F: the session store S,
\* the ledgers L, and the locals of the call. exc = TRUE: an exception is
\* on its way to the top-level handler.
RagLimit == 500
ReasonMinLen == 10

action_labels(action) ==
    CASE action = "initiate_refund" -> "refund"
      [] action = "initiate_replacement" -> "replacement"
      [] action = "book_service" -> "service appointment"
      [] OTHER -> "request"

\* how an f-string renders a slot
Text(x) == IF x.t = "NoneType" THEN <<"None">> ELSE x.v

ApologyNoModel ==
    Str(<<"I apologize, but I'm experiencing technical difficulties. Please try again later.">>)
ApologyResponder ==
    Str(<<"I apologize, but I'm having trouble processing your request. Please try again.">>)
ApologyTop ==
    Str(<<"I apologize, but I encountered an error processing your request. Please try again.">>)

\* responder_agent and verifier_agent, on the model's reply (and a
\* verifier_agent that answers nothing when it fails)
responder_agent(reply) ==
    IF reply = "NO_MODEL" THEN ApologyNoModel
    ELSE IF reply = "RAISE" THEN ApologyResponder
    ELSE Str(<<reply>>)
verifier_agent_blank(draft_response, reply) ==
    IF reply \in {"NO_MODEL", "RAISE"} THEN Str(<<>>) ELSE Str(<<reply>>)
verifier_agent(draft_response, reply) ==
    IF reply \in {"NO_MODEL", "RAISE"} THEN draft_response ELSE Str(<<reply>>)

\* the confirmation shown after a successful execution
SuccessAnswer(action, action_id) ==
    Str(<<"Your ", action_labels(action), " request has been processed.\n\n**Request ID:** ">>
        \o action_id.v \o <<"\n\nYou'll receive confirmation via email shortly.">>)

\* the flow controller's acknowledgement
BypassDraft(session, intent) ==
    Str(<<"Thank you, ">> \o Text(session.customer_name)
        \o <<". I understand you'd like to proceed with a ", action_labels(intent), " for ">>
        \o Text(session.product_name) \o <<" (Order ID: ">> \o Text(session.order_id)
        \o <<").\n\nI'm processing your ", action_labels(intent),
             " request now. Please wait a moment...">>)

\* lines 26-37: session id, get_session, the user entry of the history
StageSession(S, L, in) ==
    LET sid == IF in.session_id # "" THEN in.session_id ELSE in.uuid
        base == [S |-> S, L |-> L, sid |-> sid, message |-> in.message, exc |-> FALSE,
                 intent |-> "", context |-> Str(<<>>), bypass |-> FALSE,
                 verified_response |-> None, resolved |-> "none", action |-> "none",
                 confirmation_message |-> None, complete |-> FALSE,
                 action_result |-> None, exec_calls |-> 0, notified |-> <<>>,
                 generated |-> <<>>, verified |-> None]
    IN  IF in.message.t = "NoneType"      \* message[:50] raises TypeError
        THEN [base EXCEPT !.exc = TRUE]
        ELSE [base EXCEPT !.S = add_to_conversation_history(
                                    get_session(S, sid), sid, "user", in.message)]

\* a linkage that keeps the order the session already has
LinkOrderOnce(F, found) ==
    IF found.t = "dict" /\ ~Truthy(F.S[F.sid].order_id)
    THEN [F EXCEPT !.S = update_session_bulk(F.S, F.sid, [f \in OrderFields |-> found.v[f]])]
    ELSE F

\* lines 47-62: store the order when the lookup found one
LinkOrder(F, found) ==
    IF found.t = "dict"
    THEN [F EXCEPT !.S = update_session_bulk(F.S, F.sid, [f \in OrderFields |-> found.v[f]])]
    ELSE F

\* lines 39-62: order linkage
StageOrder(F, in) ==
    IF F.exc THEN F
    ELSE IF ~Truthy(Extracted(F.message)) THEN F
    ELSE LinkOrder(F, IF F.message \in Tabled THEN FoundOf[in.orders][F.message]
                      ELSE get_order_by_id(OrderFiles[in.orders], Extracted(F.message)))

\* a reason heuristic without the `not session.get("reason_for_action")` test
CaptureReasonAlways(F) ==
    IF F.exc THEN F
    ELSE IF ~Truthy(F.S[F.sid].order_id) THEN F
    ELSE IF Len(F.message.v) <= ReasonMinLen THEN F
    ELSE IF F.message.t # "str" THEN [F EXCEPT !.exc = TRUE]
    ELSE IF endswith(Stripped(F.message), <<"?">>) THEN F
    ELSE [F EXCEPT !.S = update_session(F.S, F.sid, "reason_for_action",
                                        Str(Stripped(F.message)))]

\* lines 65-69: the reason heuristic. A list has len() but no strip().
CaptureReason(F) ==
    IF F.exc THEN F
    ELSE IF ~(Truthy(F.S[F.sid].order_id) /\ ~Truthy(F.S[F.sid].reason_for_action)) THEN F
    ELSE IF Len(F.message.v) <= ReasonMinLen THEN F
    ELSE IF F.message.t # "str" THEN [F EXCEPT !.exc = TRUE]
    ELSE IF endswith(Stripped(F.message), <<"?">>) THEN F
    ELSE [F EXCEPT !.S = update_session(F.S, F.sid, "reason_for_action",
                                        Str(Stripped(F.message)))]

\* any(keyword in message.lower() for keyword in datetime_keywords)
HasKeyword(message) ==
    IF message \in Tabled THEN KeywordOf[message]
    ELSE \E keyword \in datetime_keywords : contains(Lowered(message), keyword)

\* a date/time heuristic without the `not session.get("preferred_datetime")` test
CaptureDatetimeAlways(F) ==
    IF F.exc THEN F
    ELSE IF ~Truthy(F.S[F.sid].order_id) THEN F
    ELSE IF F.message.t # "str" THEN [F EXCEPT !.exc = TRUE]
    ELSE IF HasKeyword(F.message)
    THEN [F EXCEPT !.S = update_session(F.S, F.sid, "preferred_datetime",
                                        Str(Stripped(F.message)))]
    ELSE F

\* lines 71-76: the date/time heuristic. A list has no lower().
CaptureDatetime(F) ==
    IF F.exc THEN F
    ELSE IF ~(Truthy(F.S[F.sid].order_id) /\ ~Truthy(F.S[F.sid].preferred_datetime)) THEN F
    ELSE IF F.message.t # "str" THEN [F EXCEPT !.exc = TRUE]
    ELSE IF HasKeyword(F.message)
    THEN [F EXCEPT !.S = update_session(F.S, F.sid, "preferred_datetime",
                                        Str(Stripped(F.message)))]
    ELSE F

\* lines 64-76: opportunistic slot capture
StageCapture(F) == CaptureDatetime(CaptureReason(F))

\* s[:n]
Take(s, n) == SubSeq(s, 1, IF Len(s) < n THEN Len(s) ELSE n)

\* lines 126 and 134: the calls of responder_agent (arg: the message) and
\* of verifier_agent (arg: the draft), with what they are given
GenerativeCalls(F, in) ==
    << [fn |-> "responder_agent", arg |-> F.message,
        context |-> retrieval_agent(in.context),
        session_context |-> get_session_context(F.S, F.sid)],
       [fn |-> "verifier_agent", arg |-> responder_agent(in.responder),
        context |-> retrieval_agent(in.context),
        session_context |-> <<>>] >>

\* lines 97-156, given the intent: the flow controller or the responder and
\* verifier, action resolution, the optional confirmation
Respond(F, in, intent, bypass) ==
    [F EXCEPT !.intent = intent, !.context = retrieval_agent(in.context),
              !.bypass = bypass,
              !.generated = IF bypass THEN <<>> ELSE GenerativeCalls(F, in),
              !.verified =
                  IF bypass THEN BypassDraft(F.S[F.sid], intent)
                  ELSE verifier_agent(responder_agent(in.responder), in.verifier),
              !.verified_response =
                  IF bypass THEN BypassDraft(F.S[F.sid], intent)
                  ELSE verifier_agent(responder_agent(in.responder), in.verifier),
              !.resolved = action_agent(intent), !.action = action_agent(intent),
              !.confirmation_message =
                  action_confirmation_agent(action_agent(intent), in.confirmation)]

\* a flow controller that tests the action the intent resolves to
ShouldSkipOnAction(session, intent) ==
    Truthy(session.order_id) /\ action_agent(intent) \in ActionTypes

\* a flow controller that skips whenever the order is known
ShouldSkipWithOrder(session, intent) == Truthy(session.order_id)

\* the flow controller's test, line 101
ShouldSkipToAction(session, intent) == Truthy(session.order_id) /\ intent \in ActionTypes

\* lines 89-156, once line 83 has bound intent
Classified(F, in, intent) ==
    IF F.exc THEN F
    ELSE Respond(F, in, intent, ShouldSkipToAction(F.S[F.sid], intent))

\* lines 78-156: classification, retrieval, response, action resolution
StageRespond(F, in) == Classified(F, in, intent_agent(in.classifier))

\* lines 178-184: the user details taken from the session
UserDetails(session) ==
    [t |-> "dict",
     v |-> [email |-> session.customer_email,
            name |-> session.customer_name,
            product_name |-> session.product_name,
            order_id |-> session.order_id,
            phone |-> IF Truthy(session.customer_phone)
                      THEN session.customer_phone ELSE Str(<<>>)]]

\* line 190: the execution reported success
IsSuccess(action_result) == action_result.t = "dict" /\ action_result.v.status = "success"

\* the apology of the handler of line 231
ApologyAct ==
    <<"\n\nI apologize, but I encountered an error processing your request. Please try again or contact support directly.">>

\* the notifier call of lines 210-217 next to what the program holds when
\* it is made: whether the ledger file has a record with the id, and the
\* session's action_id, action_type and conversation_state
Observed(call, file, session) ==
    [fn |-> call.fn, id |-> call.id, product_name |-> call.product_name,
     to |-> call.to, outcome |-> call.outcome,
     stored |-> file.state = "ok"
                /\ \E i \in 1..Len(file.records) : file.records[i].id = call.id,
     session |-> [action_id |-> session.action_id, action_type |-> session.action_type,
                  conversation_state |-> session.conversation_state]]

\* lines 189-229 without the try of lines 210-226: a notifier that raises
\* ends in the handler of line 231
ExecutesUnguarded(F, in, store, user_details, done) ==
    IF IsSuccess(done.result) /\ in.notifier = "RAISE"
    THEN [F EXCEPT
            !.complete = TRUE,
            !.L = done.ledger,
            !.exec_calls = @ + 1,
            !.action_result = [t |-> "dict", v |-> [status |-> "failed", error |-> "smtp"]],
            !.verified_response =
                Str(SuccessAnswer(F.action, done.result.v.action_id).v \o ApologyAct),
            !.notified = Append(@, Observed(NotifyCall(F.action, done.result.v.action_id,
                                                       done.result, user_details, in.notifier),
                                            done.ledger[F.action], store[F.sid])),
            !.S = store]
    ELSE IF IsSuccess(done.result)
    THEN [F EXCEPT
            !.complete = TRUE,
            !.L = done.ledger,
            !.exec_calls = @ + 1,
            !.action_result = done.result,
            !.verified_response = SuccessAnswer(F.action, done.result.v.action_id),
            !.notified = Append(@, Observed(NotifyCall(F.action, done.result.v.action_id,
                                                       done.result, user_details, in.notifier),
                                            done.ledger[F.action], store[F.sid])),
            !.S = mark_action_completed(store, F.sid, done.result.v.action_id,
                                        Str(<<F.action>>))]
    ELSE [F EXCEPT
            !.complete = TRUE,
            !.L = done.ledger,
            !.exec_calls = @ + 1,
            !.action_result = done.result,
            !.S = store]

\* lines 189-229 with an action_result kept only for a success
ExecutesReportingSuccess(F, in, store, user_details, done) ==
    IF IsSuccess(done.result)
    THEN [F EXCEPT
            !.complete = TRUE,
            !.L = done.ledger,
            !.exec_calls = @ + 1,
            !.action_result = done.result,
            !.verified_response = SuccessAnswer(F.action, done.result.v.action_id),
            !.notified = Append(@, Observed(NotifyCall(F.action, done.result.v.action_id,
                                                       done.result, user_details, in.notifier),
                                            done.ledger[F.action], store[F.sid])),
            !.S = mark_action_completed(store, F.sid, done.result.v.action_id,
                                        Str(<<F.action>>))]
    ELSE [F EXCEPT
            !.complete = TRUE,
            !.L = done.ledger,
            !.exec_calls = @ + 1,
            !.S = store]

\* lines 189-229: after execute_action returned
Executes(F, in, store, user_details, done) ==
    IF IsSuccess(done.result)
    THEN [F EXCEPT
            !.complete = TRUE,
            !.L = done.ledger,
            !.exec_calls = @ + 1,
            !.action_result = done.result,
            !.verified_response = SuccessAnswer(F.action, done.result.v.action_id),
            !.notified = Append(@, Observed(NotifyCall(F.action, done.result.v.action_id,
                                                       done.result, user_details, in.notifier),
                                            done.ledger[F.action], store[F.sid])),
            !.S = mark_action_completed(store, F.sid, done.result.v.action_id,
                                        Str(<<F.action>>))]
    ELSE [F EXCEPT
            !.complete = TRUE,
            !.L = done.ledger,
            !.exec_calls = @ + 1,
            !.action_result = done.result,
            !.S = store]

\* a slot check whose incomplete branch keeps the action
CheckedKeepsAction(F, day, in, checked) ==
    IF ~checked.info.complete
    THEN [F EXCEPT !.S = checked.store, !.verified_response = checked.info.prompt]
    ELSE Executes(F, in, checked.store, UserDetails(checked.store[F.sid]),
                  execute_action(F.L, day, F.action, UserDetails(checked.store[F.sid]), in.io))

\* lines 165-187, given what check_missing_info_for_action returned
Checked(F, day, in, checked) ==
    IF ~checked.info.complete
    THEN [F EXCEPT !.S = checked.store,
                   !.verified_response = checked.info.prompt,
                   !.action = "none"]
    ELSE Executes(F, in, checked.store, UserDetails(checked.store[F.sid]),
                  execute_action(F.L, day, F.action, UserDetails(checked.store[F.sid]), in.io))

\* lines 158-234: the slot check, then execute_action, the confirmation,
\* the notifier and mark_action_completed. Every call in the block catches
\* its own exceptions, so the handler of lines 231-234 has nothing to catch.
StageAct(F, day, in) ==
    IF F.exc \/ F.action = "none" THEN F
    ELSE Checked(F, day, in, check_missing_info_for_action(F.S, F.sid, F.action))

\* an end of the call that stores the verifier's text as the assistant entry
StageFinishVerified(F) ==
    [S |-> add_to_conversation_history(F.S, F.sid, "assistant", F.verified),
     L |-> F.L,
     result |-> [answer |-> F.verified_response,
                 intent |-> F.intent,
                 rag_sources |-> Str(Take(F.context.v, RagLimit)),
                 action |-> F.action,
                 action_confirmation |-> F.confirmation_message,
                 action_log |-> F.action_result,
                 session_id |-> F.sid],
     raised |-> FALSE]

\* lines 237-252: the assistant entry of the history and the result
StageFinish(F) ==
    [S |-> add_to_conversation_history(F.S, F.sid, "assistant", F.verified_response),
     L |-> F.L,
     result |-> [answer |-> F.verified_response,
                 intent |-> F.intent,
                 rag_sources |-> Str(Take(F.context.v, RagLimit)),
                 action |-> F.action,
                 action_confirmation |-> F.confirmation_message,
                 action_log |-> F.action_result,
                 session_id |-> F.sid],
     raised |-> FALSE]

\* a process_message without its top-level handler: the exception leaves
StageErrorUncaught(F) ==
    [S |-> F.S, L |-> F.L, result |-> None, raised |-> TRUE]

\* lines 254-264: the top-level handler
StageError(F) ==
    [S |-> F.S,
     L |-> F.L,
     result |-> [answer |-> ApologyTop,
                 intent |-> "error",
                 rag_sources |-> Str(<<>>),
                 action |-> "none",
                 action_confirmation |-> None,
                 action_log |-> None,
                 session_id |-> IF F.sid # "" THEN F.sid ELSE "unknown"],
     raised |-> FALSE]

\* the frame at the end of the try body of process_message
Body(S, L, day, in) ==
    StageAct(StageRespond(StageCapture(StageOrder(StageSession(S, L, in), in)), in), day, in)

\* what the call leaves and returns, and what it did on the way (trace)
Return(F, out, in) ==
    [S |-> out.S, L |-> out.L, result |-> out.result,
     trace |-> [sid |-> F.sid, raised |-> out.raised, caught |-> F.exc,
                resolved |-> F.resolved, complete |-> F.complete,
                exec_calls |-> F.exec_calls, notified |-> F.notified,
                bypass |-> F.bypass, generated |-> F.generated,
                verified |-> F.verified,
                message |-> in.message, io |-> in.io,
                classifier |-> in.classifier, retriever |-> in.context,
                responder |-> in.responder, verifier |-> in.verifier,
                orders |-> in.orders]]

\* lines 25 and 254: the try of process_message around its body
TryBody(F, in) == Return(F, IF F.exc THEN StageError(F) ELSE StageFinish(F), in)

\* process_message(message, session_id)
process_message(S, L, day, in) == TryBody(Body(S, L, day, in), in)

\* process_message when the name intent_agent of line 83 is bound to a
\* classifier that returns label: the collaborator is looked up in the
\* module at each call, so a substitute is called in its place
process_message_classified(S, L, day, in, label) ==
    TryBody(StageAct(Classified(StageCapture(StageOrder(StageSession(S, L, in), in)), in, label),
                     day, in), in)

\* ------------------------------------------------------------- the pipeline, call by call
\* SESSION_STATE: the session store; ledger: the three ledger files; today:
\* the day of the clock; result, trace: what the last process_message call
\* returned and did; calls: calls made so far; returned: what the last
\* direct execute_action call returned; successes: executions that returned
\* 'success', per action type and day; callers: execute_action calls in
\* progress; requests: the /chat requests of the server
VARIABLES SESSION_STATE, ledger, today, result, trace, calls,
          returned, successes, callers, requests

vars == <<SESSION_STATE, ledger, today, result, trace, calls,
          returned, successes, callers, requests>>

\* bound of the model: process_message calls in one behaviour
MaxCalls == 2

\* bound of the model: days the clock goes through
MaxDay == 2

\* the processes that call execute_action, the /chat requests
Callers == {"c1", "c2"}
MaxRequests == 2
RequestIds == 1..MaxRequests

\* nothing but the pipeline is running
NoSuccesses == [a \in ActionTypes |-> [d \in 1..MaxDay |-> 0]]
NoCallers == [c \in Callers |-> [pc |-> "idle", action |-> "none", action_id |-> <<>>,
                                 records |-> <<>>, status |-> "none"]]
NoRequests == [r \in RequestIds |-> [state |-> "none"]]

\* f"session_{uuid.uuid4().hex[:12]}": two of the ids
GeneratedIds == {"session_u1", "session_u2"}
IoOk == [gen_read |-> "ok", save_read |-> "ok", save_write |-> "ok", build |-> "ok",
         clock |-> "same"]

\* what the collaborators and the file system do during one call
AllFine == [classifier |-> "general_query", context |-> Str(<<"c","t","x">>),
            responder |-> "draft", verifier |-> "verified",
            confirmation |-> "Shall I proceed?", notifier |-> "sent", io |-> IoOk,
            orders |-> "two_orders"]

\* a call's inputs: its arguments, the uuid it would draw, the environment
MkIn(session_id, uuid, message, env) ==
    [session_id |-> session_id, uuid |-> uuid, message |-> message,
     classifier |-> env.classifier, context |-> env.context,
     responder |-> env.responder, verifier |-> env.verifier,
     confirmation |-> env.confirmation, notifier |-> env.notifier, io |-> env.io,
     orders |-> env.orders]

NoFile == [state |-> "missing", records |-> <<>>]
EmptyFile == [state |-> "ok", records |-> <<>>]

NoResult == [answer |-> None, intent |-> "", rag_sources |-> Str(<<>>), action |-> "none",
             action_confirmation |-> None, action_log |-> None, session_id |-> ""]
NoTrace == [sid |-> "", raised |-> FALSE, caught |-> FALSE, resolved |-> "none",
            complete |-> FALSE, exec_calls |-> 0, notified |-> <<>>,
            bypass |-> FALSE, generated |-> <<>>, verified |-> None,
            message |-> None, io |-> IoOk,
            classifier |-> "general_query", retriever |-> Str(<<>>),
            responder |-> "draft", verifier |-> "verified", orders |-> "missing"]

\* the store once process_message("ord-301?", "s1") has returned: session s1
\* with its order linked, no reason and no date yet
Linked ==
    process_message(<<>>, [a \in ActionTypes |-> NoFile], 1,
                    MkIn("s1", "", MsgOrd301Q, AllFine)).S

\* the server has just started with no ledger file yet, or has served that
\* one request and finds the ledger files there, empty
Init ==
    /\ \/ SESSION_STATE = <<>> /\ ledger = [a \in ActionTypes |-> NoFile]
       \/ SESSION_STATE = Linked /\ ledger = [a \in ActionTypes |-> EmptyFile]
    /\ today = 1
    /\ result = NoResult
    /\ trace = NoTrace
    /\ calls = 0
    /\ returned = None
    /\ successes = NoSuccesses
    /\ callers = NoCallers
    /\ requests = NoRequests

\* the state after a call that returned r
Returned(r) ==
    /\ RecordDay(today, r.trace.io) <= MaxDay
    /\ SESSION_STATE' = r.S
    /\ ledger' = r.L
    /\ result' = r.result
    /\ trace' = r.trace
    /\ calls' = calls + 1
    /\ today' = RecordDay(today, r.trace.io)
    /\ UNCHANGED <<returned, successes, callers, requests>>

\* one call of process_message, run to its return
Call(in) == Returned(process_message(SESSION_STATE, ledger, today, in))

\* the session_id arguments: a known id, or none
SessionIdArgs == {"s1", ""}

\* a call given a session_id draws no uuid
NoUuid == {""}

\* lines 27-29: the ids uuid4 can give a call without session_id. The id is
\* drawn without a look at the store: it can be one a session already has.
Uuids(session_id) ==
    IF session_id = "" THEN GeneratedIds ELSE NoUuid

\* sampled environments: each action type, each ledger I/O outcome, each
\* collaborator failing
Envs ==
    { [AllFine EXCEPT !.classifier = "refund"],
      [AllFine EXCEPT !.classifier = "replacement", !.notifier = "not_sent",
                      !.confirmation = "RAISE"],
      [AllFine EXCEPT !.classifier = "service_booking", !.notifier = "RAISE"],
      [AllFine EXCEPT !.classifier = "refund", !.io.gen_read = "fail"],
      [AllFine EXCEPT !.classifier = "refund", !.io.save_read = "fail"],
      [AllFine EXCEPT !.classifier = "refund", !.io.save_write = "open_fails"],
      [AllFine EXCEPT !.classifier = "refund", !.io.save_write = "dump_fails"],
      [AllFine EXCEPT !.classifier = "refund", !.io.clock = "after_id"],
      [AllFine EXCEPT !.classifier = "RAISE", !.context = Raised,
                      !.responder = "RAISE"],
      [AllFine EXCEPT !.classifier = "RAISE"],
      [AllFine EXCEPT !.classifier = "troubleshoot", !.context = Raised],
      [AllFine EXCEPT !.classifier = "order_status", !.verifier = "RAISE"],
      AllFine }

\* data/orders.json absent at the call, and rewritten before it
OrderEnvs ==
    { [AllFine EXCEPT !.orders = "missing"],
      [AllFine EXCEPT !.classifier = "refund", !.orders = "rewritten"] }

\* the calls made: with a session_id, or with none and uuid4 giving the
\* first id for the first time, on every message and environment of the
\* samples; with none and uuid4 giving the first id again or another id, on
\* two of the messages with the collaborators working; with session s1 and
\* another order file, on the message that names an order and gives a
\* reason
FirstDraw == {""} \cup ({"session_u1"} \ DOMAIN SESSION_STATE)
CallInputs ==
    { [session_id |-> s, uuid |-> u, message |-> m, env |-> e] :
         s \in SessionIdArgs, u \in GeneratedIds \cup NoUuid, m \in Messages,
         e \in Envs \cup OrderEnvs }
SampledCalls ==
    { i \in CallInputs :
         /\ i.uuid \in Uuids(i.session_id)
         /\ \/ i.uuid \in FirstDraw /\ i.env \in Envs
            \/ /\ i.env \in {AllFine, [AllFine EXCEPT !.classifier = "refund"]}
               /\ i.message \in {MsgOrder201, MsgWhy}
            \/ /\ i.env \in OrderEnvs /\ i.session_id = "s1"
               /\ i.message = MsgBroke301 }

\* process_message called with arguments and an environment of the samples
ProcessMessage ==
    /\ calls < MaxCalls
    /\ \E i \in SampledCalls : Call(MkIn(i.session_id, i.uuid, i.message, i.env))

Next == ProcessMessage

Spec == Init /\ [][Next]_vars


\* ------------------------------------------------------------- claims on the pipeline
\* the step is a process_message call
IsCall == calls' # calls

\* the records a ledger file holds
Records(file) == IF file.state = "ok" THEN file.records ELSE <<>>

\* positions of a ledger that hold something the step put there
Added(a) ==
    {i \in 1..Len(Records(ledger'[a])) :
        i > Len(Records(ledger[a])) \/ Records(ledger'[a])[i] # Records(ledger[a])[i]}

Succeeded(res) == res.action_log.t = "dict" /\ res.action_log.v.status = "success"

\* the session of the call before the call (a fresh one if it did not exist)
Before(sid) == IF sid \in DOMAIN SESSION_STATE THEN SESSION_STATE[sid] ELSE NewSession(sid)

\* C1: in every process_message call execute_action runs at most once and at
\* most one record is appended, to at most one ledger; one record is appended
\* exactly when the resolved action is one of the three action types, the
\* slot check is complete and the ledger write succeeds, and none otherwise.
C1_ExecutesAtMostOnce ==
    [][IsCall =>
         /\ trace'.exec_calls <= 1
         /\ \A a \in ActionTypes : Cardinality(Added(a)) <= 1
         /\ \A a, b \in ActionTypes : Added(a) # {} /\ Added(b) # {} => a = b
         /\ \A a \in ActionTypes :
              Added(a) # {} <=>
                  /\ trace'.resolved = a
                  /\ trace'.complete
                  /\ trace'.exec_calls = 1
                  /\ Succeeded(result')
                  /\ trace'.io.save_write = "ok"
       ]_vars

C1_Witness ==
    /\ trace.exec_calls = 1
    /\ Succeeded(result)
    /\ \E i \in 1..Len(Records(ledger[trace.resolved])) :
          Records(ledger[trace.resolved])[i].id = result.action_log.v.action_id

\* the session of the call after the call, and the entries of its history
After == SESSION_STATE'[trace'.sid]
History(session) == session.conversation_history

\* the message cannot be taken for a reason: at most ReasonMinLen
\* characters, a question, or nothing but whitespace
NotAReason(message) ==
    \/ Len(message.v) <= ReasonMinLen
    \/ endswith(Stripped(message), <<"?">>)
    \/ Stripped(message) = <<>>

\* the question the slot engine asks for a session and an action
ExpectedPrompt(session, action) ==
    IF ~Truthy(session.order_id) THEN PromptOrderId
    ELSE IF action = "initiate_refund" THEN PromptRefundReason
    ELSE IF action = "initiate_replacement" THEN PromptReplacementIssue
    ELSE PromptServiceDate

\* the slot check of the call reported incomplete
Incomplete == ~trace'.caught /\ trace'.resolved \in ActionTypes /\ ~trace'.complete

\* C2 as stated: whenever a message arrives for a session with order_id set
\* and reason_for_action empty and the intent resolves to initiate_refund,
\* the answer is the refund reason prompt, the action is 'none', action_log
\* is null and no ledger changes.
C2_Original ==
    [][IsCall /\ trace'.resolved = "initiate_refund"
          /\ Truthy(Before(trace'.sid).order_id)
          /\ ~Truthy(Before(trace'.sid).reason_for_action)
        => /\ result'.answer.v = PromptRefundReason
           /\ result'.action = "none"
           /\ result'.action_log.t = "NoneType"
           /\ ledger' = ledger
      ]_vars

\* C2: when a message that cannot be taken for a reason (at most 10
\* characters, or ending in '?', or blank) arrives for a session with
\* order_id set and reason_for_action empty and the intent resolves to
\* initiate_refund, the answer is the refund reason prompt; and whenever the
\* slot check of the resolved action reports incomplete, the answer is the
\* engine's prompt, the action is 'none', action_log is null, execute_action
\* is not called, no ledger changes, and the session's action_id,
\* action_type and conversation_state are unchanged.
C2_IncompletePrompts ==
    [][IsCall =>
         /\ ( /\ trace'.resolved = "initiate_refund"
              /\ Truthy(Before(trace'.sid).order_id)
              /\ ~Truthy(Before(trace'.sid).reason_for_action)
              /\ NotAReason(trace'.message)
              => Incomplete /\ result'.answer.v = PromptRefundReason )
         /\ ( Incomplete =>
                /\ result'.answer.v = ExpectedPrompt(After, trace'.resolved)
                /\ result'.action = "none"
                /\ result'.action_log.t = "NoneType"
                /\ trace'.exec_calls = 0
                /\ ledger' = ledger
                /\ After.action_id = Before(trace'.sid).action_id
                /\ After.action_type = Before(trace'.sid).action_type
                /\ After.conversation_state = Before(trace'.sid).conversation_state )
      ]_vars

\* the order was linked by an earlier message, "Why?" arrives with a refund
\* intent, and the reason prompt is the answer
C2_Witness ==
    /\ trace.resolved = "initiate_refund" /\ ~trace.complete
    /\ trace.message = MsgWhy
    /\ Len(History(SESSION_STATE[trace.sid])) >= 4
    /\ History(SESSION_STATE[trace.sid])[1].message = MsgOrd301Q
    /\ Truthy(SESSION_STATE[trace.sid].order_id)
    /\ result.answer.v = PromptRefundReason
    /\ result.action = "none"

\* the slot an action type needs besides order_id
SlotOf(a) == IF a = "book_service" THEN "preferred_datetime" ELSE "reason_for_action"

\* records of a ledger file whose id contains the date of the day
CountToday(file, day) ==
    Cardinality({i \in 1..Len(Records(file)) :
                    contains(Records(file)[i].id.v, DateStr(day))})

\* C3: for each action type, when the slots of the resolved action are
\* complete (as they are when order_id and the action's slot were set on
\* arrival) and ledger I/O succeeds, one record of that type is created with
\* a fresh sequential id, action_log.status is 'success', the answer is the
\* minimal confirmation containing that id, the notifier is invoked exactly
\* once with that id and the session's product name, and afterwards the
\* session has that action_id, that action_type and conversation_state
\* action_executed.
C3_CompleteExecutes ==
    [][IsCall =>
        \A a \in ActionTypes :
          /\ ( /\ trace'.resolved = a /\ ~trace'.caught
               /\ Truthy(Before(trace'.sid).order_id)
               /\ Truthy(Before(trace'.sid)[SlotOf(a)])
               => trace'.complete )
          /\ ( /\ trace'.resolved = a /\ trace'.complete
               /\ trace'.io = IoOk /\ ledger[a].state # "corrupt"
               => /\ Succeeded(result')
                  /\ result'.action = a
                  /\ Added(a) = {Len(Records(ledger[a])) + 1}
                  /\ \A b \in ActionTypes \ {a} : ledger'[b] = ledger[b]
                  /\ Records(ledger'[a])[Len(Records(ledger[a])) + 1].id
                        = result'.action_log.v.action_id
                  /\ result'.action_log.v.action_id.v =
                        Prefix(a) \o <<"-">> \o DateStr(today) \o <<"-">>
                        \o Format04d(CountToday(ledger[a], today) + 1)
                  /\ \A i \in 1..Len(Records(ledger[a])) :
                        Records(ledger[a])[i].id # result'.action_log.v.action_id
                  /\ result'.answer = SuccessAnswer(a, result'.action_log.v.action_id)
                  /\ Len(trace'.notified) = 1
                  /\ trace'.notified[1].id = result'.action_log.v.action_id
                  /\ trace'.notified[1].product_name = After.product_name
                  /\ After.action_id = result'.action_log.v.action_id
                  /\ After.action_type = Str(<<a>>)
                  /\ After.conversation_state = "action_executed" )
      ]_vars

\* a refund executed on "Why?", which sets no slot: order_id and the reason
\* were in the session when it arrived
C3_Witness ==
    /\ trace.resolved = "initiate_refund" /\ trace.complete
    /\ trace.message = MsgWhy
    /\ Succeeded(result)
    /\ Len(trace.notified) = 1
    /\ SESSION_STATE[trace.sid].action_id = result.action_log.v.action_id
    /\ SESSION_STATE[trace.sid].conversation_state = "action_executed"

\* C9: in every session, once reason_for_action holds a value no later
\* message alters it, and the same for preferred_datetime.
C9_SlotsKept ==
    [][\A sid \in DOMAIN SESSION_STATE :
         /\ Truthy(SESSION_STATE[sid].reason_for_action)
              => SESSION_STATE'[sid].reason_for_action = SESSION_STATE[sid].reason_for_action
         /\ Truthy(SESSION_STATE[sid].preferred_datetime)
              => SESSION_STATE'[sid].preferred_datetime = SESSION_STATE[sid].preferred_datetime
      ]_vars

\* "tomorrow 2pm", which the heuristics would take for a reason and for a
\* date, arrived after both slots were set by another message
C9_Witness ==
    /\ trace.message = MsgTomorrow /\ ~trace.caught
    /\ SESSION_STATE[trace.sid].reason_for_action = Str(Stripped(MsgBroke301))
    /\ SESSION_STATE[trace.sid].preferred_datetime = Str(Stripped(MsgBroke301))

\* the fixed payload of the top-level handler
ErrorPayload(session_id) ==
    [answer |-> ApologyTop, intent |-> "error", rag_sources |-> Str(<<>>),
     action |-> "none", action_confirmation |-> None, action_log |-> None,
     session_id |-> session_id]

\* C10: process_message never raises; a failure no inner step handles ends
\* in the fixed apology payload (intent 'error', action 'none',
\* action_confirmation and action_log null, rag_sources empty), with no
\* ledger touched and every session as it was except for what the call
\* committed before the failure (the session it created and the user entry
\* of its history); a call with a string message never ends that way,
\* whatever happened to the session before.
C10_NeverRaises ==
    [][IsCall =>
         /\ ~trace'.raised
         /\ trace'.message.t = "str" => ~trace'.caught /\ result'.intent \in ValidIntents
         /\ trace'.caught =>
              /\ result' = ErrorPayload(trace'.sid)
              /\ ledger' = ledger
              /\ \A sid \in DOMAIN SESSION_STATE \ {trace'.sid} :
                    SESSION_STATE'[sid] = SESSION_STATE[sid]
              /\ \/ SESSION_STATE' = SESSION_STATE
                 \/ /\ DOMAIN SESSION_STATE' = DOMAIN SESSION_STATE \cup {trace'.sid}
                    /\ After = [Before(trace'.sid) EXCEPT !.conversation_history =
                                   Append(@, [role |-> "user", message |-> trace'.message])]
      ]_vars

\* a call answered normally in a session whose history holds the user entry
\* of a call that failed (a list message, left without an assistant entry)
C10_Witness ==
    /\ ~trace.caught /\ result.intent \in ValidIntents
    /\ trace.sid \in DOMAIN SESSION_STATE
    /\ Truthy(SESSION_STATE[trace.sid].order_id)
    /\ \E i \in 1..Len(History(SESSION_STATE[trace.sid])) - 2 :
          /\ History(SESSION_STATE[trace.sid])[i] = [role |-> "user", message |-> MsgList]
          /\ History(SESSION_STATE[trace.sid])[i + 1].role = "user"

\* the seven fields of a result
ResultFields == {"answer", "intent", "rag_sources", "action", "action_confirmation",
                 "action_log", "session_id"}

\* C11: in a call with a string message, a classifier that raises gives
\* intent 'general_query', resolved action 'none', no execution, and a
\* result with the seven fields whose intent is not 'error'; a retriever
\* that raises gives rag_sources '' and the answer still comes from the
\* responder and the verifier (or from the slot check and the execution);
\* neither failure changes what the other collaborator's outcome gives:
\* rag_sources is the retrieved context whatever the classifier did, the
\* intent is the classifier's label whatever the retriever did.
C11_CollaboratorFaultsIsolated ==
    [][IsCall /\ trace'.message.t = "str" =>
         /\ ~trace'.raised /\ ~trace'.caught
         /\ DOMAIN result' = ResultFields
         /\ result'.intent = intent_agent(trace'.classifier)
         /\ result'.rag_sources = Str(Take(retrieval_agent(trace'.retriever).v, RagLimit))
         /\ trace'.classifier = "RAISE" =>
              /\ result'.intent = "general_query"
              /\ trace'.resolved = "none" /\ result'.action = "none"
              /\ trace'.exec_calls = 0 /\ result'.action_log = None
              /\ ledger' = ledger
         /\ trace'.retriever.t = "raise" => result'.rag_sources = Str(<<>>)
         /\ trace'.resolved = "none" =>
              result'.answer = verifier_agent(responder_agent(trace'.responder),
                                              trace'.verifier)
         /\ History(After)[Len(History(After))] =
               [role |-> "assistant", message |-> result'.answer]
      ]_vars

\* the classifier raised and the retriever did not: the default intent next
\* to the retrieved context
C11_Witness ==
    /\ calls > 0
    /\ trace.message.t = "str"
    /\ trace.classifier = "RAISE" /\ trace.retriever.t = "str"
    /\ result.intent = "general_query" /\ result.action = "none"
    /\ result.rag_sources = Str(<<"c","t","x">>)
    /\ result.answer = Str(<<"verified">>)

\* action_id and action_type of a session: both null or both set
BothOrNeither(session) == (session.action_id = None) <=> (session.action_type = None)

\* C12: in every session of the store action_id and action_type are both
\* null or both non-null, and a process_message call changes either of them
\* only by executing an action once with status 'success' and marking it:
\* the session of the call then holds the id of that execution and the
\* action that was resolved; no other session's pair changes.
C12_ActionPairSetTogether ==
    [][/\ \A sid \in DOMAIN SESSION_STATE : BothOrNeither(SESSION_STATE[sid])
       /\ \A sid \in DOMAIN SESSION_STATE' : BothOrNeither(SESSION_STATE'[sid])
       /\ IsCall =>
            \A sid \in DOMAIN SESSION_STATE' :
               \/ /\ SESSION_STATE'[sid].action_id = Before(sid).action_id
                  /\ SESSION_STATE'[sid].action_type = Before(sid).action_type
               \/ /\ sid = trace'.sid
                  /\ trace'.exec_calls = 1
                  /\ Succeeded(result')
                  /\ SESSION_STATE'[sid].action_id = result'.action_log.v.action_id
                  /\ SESSION_STATE'[sid].action_id # None
                  /\ SESSION_STATE'[sid].action_type = Str(<<trace'.resolved>>)
                  /\ SESSION_STATE'[sid].conversation_state = "action_executed"
      ]_vars

\* a session that went from the null pair to an id and a type in the last call
C12_Witness ==
    /\ calls > 0
    /\ trace.sid \in DOMAIN SESSION_STATE
    /\ SESSION_STATE[trace.sid].action_id # None
    /\ SESSION_STATE[trace.sid].action_type = Str(<<"initiate_refund">>)
    /\ Succeeded(result)
    /\ SESSION_STATE[trace.sid].action_id = result.action_log.v.action_id

\* ------------------------------------------------------------- execute_action, call after call
\* bound of the model: execute_action calls in one behaviour
MaxExec == 3

\* the user_details of a direct call: a dict as the pipeline builds it, a
\* dict whose product_name is a set, or None
DetailsSamples ==
    { [t |-> "dict", v |-> [email |-> None, name |-> Str(<<"Asha Rao">>),
                            product_name |-> Str(<<"Aura Blender">>),
                            order_id |-> Str(<<"O","R","D","2","0","1">>),
                            phone |-> Str(<<>>)]],
      [t |-> "dict", v |-> [product_name |-> [t |-> "set", v |-> <<"Aura Blender">>]]],
      [t |-> "dict", v |-> [address |-> [t |-> "set", v |-> <<"12 Hill Rd">>]]],
      [t |-> "dict", v |-> [name |-> [t |-> "dict",
                                      v |-> [k |-> List(<<[t |-> "set", v |-> <<"x">>]>>)]]]],
      None }

\* what the file system does during one call, operation by operation
IoSamples ==
    { IoOk,
      [IoOk EXCEPT !.gen_read = "fail"],
      [IoOk EXCEPT !.save_read = "fail"],
      [IoOk EXCEPT !.save_write = "open_fails"],
      [IoOk EXCEPT !.save_write = "dump_fails"],
      [IoOk EXCEPT !.clock = "after_id"],
      [IoOk EXCEPT !.gen_read = "fail", !.clock = "in_id"] }

\* arguments and file system of the execute_action calls: the details json
\* can write with each outcome of the file operations, the others with the
\* file operations working
ExecuteInputs ==
    { [action |-> a, user_details |-> d, io |-> io] :
         a \in ActionTypes,
         d \in {x \in DetailsSamples : x.t # "dict" \/ "order_id" \in DOMAIN x.v},
         io \in IoSamples }
    \cup { [action |-> a, user_details |-> d, io |-> IoOk] :
              a \in ActionTypes, d \in DetailsSamples }

\* the ledger files a run can find: none, or the three of them empty
FreshLedgers == {[a \in ActionTypes |-> NoFile], [a \in ActionTypes |-> EmptyFile]}

\* everything but the ledgers and the clock, before the first call
Idle ==
    /\ SESSION_STATE = <<>>
    /\ result = NoResult
    /\ trace = NoTrace
    /\ calls = 0
    /\ returned = None
    /\ successes = NoSuccesses
    /\ callers = NoCallers
    /\ requests = NoRequests

InitExec ==
    /\ Idle
    /\ ledger \in FreshLedgers
    /\ today = 1

\* the state after execute_action(action, ...) returned done, the clock
\* having gone as io tells
ExecuteReturned(action, io, done) ==
    /\ RecordDay(today, io) <= MaxDay
    /\ ledger' = done.ledger
    /\ returned' = done.result
    /\ successes' = IF IsSuccess(done.result)
                    THEN [successes EXCEPT ![action][today] = @ + 1]
                    ELSE successes
    /\ calls' = calls + 1
    /\ today' = RecordDay(today, io)
    /\ UNCHANGED <<SESSION_STATE, result, trace, callers, requests>>

\* one call of execute_action, run to its return
Execute ==
    /\ calls < MaxExec
    /\ \E i \in ExecuteInputs :
         ExecuteReturned(i.action, i.io,
                         execute_action(ledger, today, i.action, i.user_details, i.io))

\* midnight: datetime.now() gives the next day
Tick ==
    /\ today < MaxDay
    /\ today' = today + 1
    /\ UNCHANGED <<SESSION_STATE, ledger, result, trace, calls,
                   returned, successes, callers, requests>>

NextExec == Execute \/ Tick

SpecExec == InitExec /\ [][NextExec]_vars

\* ------------------------------------------------------------- claims on serial executions
\* the step is an execute_action call
IsExecute == calls' # calls

\* the id of action type a with sequence n on a day
IdOf(a, day, n) == Prefix(a) \o <<"-">> \o DateStr(day) \o <<"-">> \o Format04d(n)

\* no two records of a ledger file have the same id
UniqueIds(file) ==
    \A i, j \in 1..Len(Records(file)) :
        i < j => Records(file)[i].id # Records(file)[j].id

\* C4 as stated: in a serial run, the n-th execute_action call of a type on
\* a date that returns status 'success' receives the id of that type and
\* date with sequence n.
C4_Original ==
    [][IsExecute /\ IsSuccess(returned')
        => returned'.v.action_id.v =
              IdOf(returned'.v.action, today, successes[returned'.v.action][today] + 1)
      ]_vars

\* C5 as stated: after serial execute_action calls, failed reads and writes
\* included, no two records of a ledger have the same id, and every id a
\* call allocates has for sequence one plus the number of records of its
\* ledger whose id contains the date of the day.
C5_Original ==
    [][IsExecute =>
         /\ \A a \in ActionTypes : UniqueIds(ledger'[a])
         /\ returned'.v.action_id.v =
               IdOf(returned'.v.action, today,
                    CountToday(ledger[returned'.v.action], today) + 1)
      ]_vars

\* ------------------------------------------------------------- ids on a long day
\* bounds of the model: records a ledger file holds at the start, and
\* execute_action calls made from there
MaxPreload == 9999
MaxAlloc == 2

\* a ledger can start empty or one short of the next width of the sequence
PreloadSizes == {0, 9, 99, 999, MaxPreload}

\* the user_details the pipeline builds for order ORD201
OrderDetails ==
    [t |-> "dict", v |-> [email |-> None, name |-> Str(<<"Asha Rao">>),
                          product_name |-> Str(<<"Aura Blender">>),
                          order_id |-> Str(<<"O","R","D","2","0","1">>),
                          phone |-> Str(<<>>)]]

\* the ledger file of action type a after n executions on the first day
Preloaded(a, n) ==
    [state |-> "ok",
     records |-> [i \in 1..n |-> ActionData(a, IdOf(a, 1, i), OrderDetails, 1)]]

InitId ==
    /\ Idle
    /\ \E a \in ActionTypes, n \in PreloadSizes :
          ledger = [b \in ActionTypes |-> IF b = a THEN Preloaded(a, n) ELSE EmptyFile]
    /\ today = 1

\* one more execution on that day, the files readable and writable
Allocate ==
    /\ calls < MaxAlloc
    /\ \E action \in ActionTypes :
         ExecuteReturned(action, IoOk,
                         execute_action(ledger, today, action, OrderDetails, IoOk))

NextId == Allocate

SpecId == InitId /\ [][NextId]_vars

\* ------------------------------------------------------------- claims on the id format
AllDigits(s) == \A i \in 1..Len(s) : s[i] \in Digits

\* PREFIX-YYYYMMDD-NNNN with the prefix of the action type
WellFormed(id, a) ==
    /\ Len(id) = 17
    /\ SubSeq(id, 1, 3) = Prefix(a)
    /\ id[4] = "-" /\ AllDigits(SubSeq(id, 5, 12))
    /\ id[13] = "-" /\ AllDigits(SubSeq(id, 14, 17))

\* ERR-YYYYMMDD-0000
ErrorFallback(id) ==
    /\ Len(id) = 17
    /\ SubSeq(id, 1, 4) = <<"E","R","R","-">>
    /\ AllDigits(SubSeq(id, 5, 12))
    /\ SubSeq(id, 13, 17) = <<"-","0","0","0","0">>

\* C8 as stated: every action id execute_action returns or a ledger stores
\* is PREFIX-YYYYMMDD-NNNN, with the prefix of its action type and a
\* sequence of exactly four digits, or is the fallback ERR-YYYYMMDD-0000.
C8_Original ==
    /\ returned.t = "dict" =>
          \/ WellFormed(returned.v.action_id.v, returned.v.action)
          \/ ErrorFallback(returned.v.action_id.v)
    /\ \A a \in ActionTypes : \A i \in 1..Len(Records(ledger[a])) :
          \/ WellFormed(Records(ledger[a])[i].id.v, a)
          \/ ErrorFallback(Records(ledger[a])[i].id.v)

\* ------------------------------------------------------------- execute_action, two callers at once
\* Two processes run execute_action on the same ledger files. Each call is
\* four steps on the file: generate_action_id reads it and counts, then
\* save_action_data reads it and appends to what it read, opens it for
\* writing, which empties it, and writes the whole list. Nothing in the code
\* orders the steps of one caller with those of the other.
\* bound of the model: execute_action calls started in one behaviour
MaxStarts == 3

InitConc ==
    /\ Idle
    /\ ledger \in FreshLedgers
    /\ today = 1

\* line 325: the caller starts execute_action(action, ...) and
\* generate_action_id gives it an id: the next of the sequence, or
\* ERR-<date>-0000 when json.load raises on a file another caller has
\* opened for writing and not written yet
Generate(c) ==
    /\ callers[c].pc \in {"idle", "returned"}
    /\ calls < MaxStarts
    /\ \E action \in ActionTypes :
         callers' = [callers EXCEPT ![c] =
                        [pc |-> "generated", action |-> action,
                         action_id |-> generate_action_id(ledger[action], today, today, action, "ok"),
                         records |-> <<>>, status |-> "none"]]
    /\ calls' = calls + 1
    /\ UNCHANGED <<SESSION_STATE, ledger, today, result, trace,
                   returned, successes, requests>>

\* the user_details each caller passes: those of one customer, and of
\* another whose name is as long
CallerDetails(c) ==
    IF c = "c1" THEN OrderDetails ELSE [OrderDetails EXCEPT !.v.name = Str(<<"Ben Otto">>)]

\* lines 327-300: the record is built and save_action_data reads the file.
\* json.load raises on a file that is open for writing and still empty:
\* save_action_data returns False (309-311) and execute_action returns
\* status 'partial' (379); otherwise the record is appended to the list
\* that was read
SaveRead(c) ==
    /\ callers[c].pc = "generated"
    /\ callers' = [callers EXCEPT ![c] =
                      IF ReadFails(ledger[callers[c].action], "ok")
                      THEN [@ EXCEPT !.pc = "returned", !.status = "partial"]
                      ELSE [@ EXCEPT !.pc = "read",
                                     !.records =
                                        Append(ReadRecords(ledger[callers[c].action]),
                                               ActionData(callers[c].action,
                                                          callers[c].action_id,
                                                          CallerDetails(c), today))]]
    /\ UNCHANGED <<SESSION_STATE, ledger, today, result, trace, calls,
                   returned, successes, requests>>

\* the file open(file_path, 'w') leaves: it exists and is empty, json.load
\* raises on it
Truncated == [state |-> "corrupt", records |-> <<>>]

\* line 303: open(file_path, 'w') creates the file or empties it
SaveOpen(c) ==
    /\ callers[c].pc = "read"
    /\ ledger' = [ledger EXCEPT ![callers[c].action] = Truncated]
    /\ callers' = [callers EXCEPT ![c].pc = "opened"]
    /\ UNCHANGED <<SESSION_STATE, today, result, trace, calls,
                   returned, successes, requests>>

\* json.dump and the close of the handle write the text of the list from
\* offset 0 of the file. What the file holds then was written through
\* another handle since this one emptied it, and stays beyond the end of
\* the new text: when it is the longer, the file is the new text followed
\* by the tail of the old and json.load raises on it. The records of one
\* action type written here take the same number of characters each.
Overwrite(file, records) ==
    IF file.state = "ok" /\ Len(file.records) > Len(records)
    THEN [state |-> "corrupt", records |-> <<>>]
    ELSE [state |-> "ok", records |-> records]

\* lines 304-385: the list is written, save_action_data returns True and
\* execute_action returns status 'success'
SaveDump(c) ==
    /\ callers[c].pc = "opened"
    /\ ledger' = [ledger EXCEPT ![callers[c].action] = Overwrite(@, callers[c].records)]
    /\ callers' = [callers EXCEPT ![c].pc = "returned", ![c].records = <<>>,
                                  ![c].status = "success"]
    /\ UNCHANGED <<SESSION_STATE, today, result, trace, calls,
                   returned, successes, requests>>

NextConc ==
    \/ \E c \in Callers : Generate(c)
    \/ \E c \in Callers : SaveRead(c)
    \/ \E c \in Callers : SaveOpen(c)
    \/ \E c \in Callers : SaveDump(c)

SpecConc == InitConc /\ [][NextConc]_vars

\* ------------------------------------------------------------- claims on interleaved executions
\* the caller holds an id: its call is in progress or has returned
HoldsId(c) == callers[c].pc \in {"generated", "read", "opened", "returned"}

\* C6 as stated: two execute_action calls of the same action type on the
\* same date whose steps interleave are never given the same action id.
C6_Original ==
    \A c, d \in Callers :
        /\ c # d /\ HoldsId(c) /\ HoldsId(d)
        /\ callers[c].action = callers[d].action
        => callers[c].action_id # callers[d].action_id

\* ------------------------------------------------------------- the /chat endpoint
\* main.py serves POST /chat with `async def chat`, which calls the
\* synchronous process_message without awaiting anything: the handler runs
\* on the event loop of the one server process from its first line to its
\* return, and the loop starts the next handler only then. A request is
\* none (not sent yet), pending (sent, its handler not started), running
\* (inside process_message, at stage pc), done or rejected.
\* ChatRequest.message is a str, so only strings reach the handler
ChatMessages == {MsgBroke301, MsgWhy, MsgBlank, MsgEmpty, MsgLong}
ChatEnvs == {[AllFine EXCEPT !.classifier = "refund"], AllFine}

\* data/orders.json absent when the handler runs, and rewritten before it
ChatOrderEnvs == {[AllFine EXCEPT !.classifier = "refund", !.orders = "missing"],
                  [AllFine EXCEPT !.orders = "rewritten"]}
ChatSessionIds == {"s1", ""}

\* line 78: the ids uuid4 can give a handler, whatever the store holds
ChatUuids == GeneratedIds

\* the stages of process_message, in order
Stages == <<"session", "order", "capture", "respond", "act", "finish">>
StageAfter(pc) == Stages[(CHOOSE i \in 1..Len(Stages) : Stages[i] = pc) + 1]

InitChat ==
    /\ Idle
    /\ ledger = [a \in ActionTypes |-> NoFile]
    /\ today = 1

Running(r) == requests[r].state = "running"

\* handlers that run on threads of a pool, as those of a plain `def` do
ThreadPool == TRUE

\* every handler started so far has returned: one that is running keeps the
\* event loop busy, because it never awaits
LoopFree == \A r \in RequestIds : ~Running(r)

\* the requests sent: every session id and message with the two
\* classifications, and the refund message for session s1 with another
\* order file
ChatInputs ==
    { [session_id |-> s, message |-> m, env |-> e] :
         s \in ChatSessionIds, m \in ChatMessages, e \in ChatEnvs }
    \cup { [session_id |-> "s1", message |-> MsgBroke301, env |-> e] : e \in ChatOrderEnvs }

\* a client sends POST /chat
Post(r) ==
    /\ requests[r].state = "none"
    /\ \A q \in RequestIds : q < r => requests[q].state # "none"
    /\ \E i \in ChatInputs :
         requests' = [requests EXCEPT ![r] =
                         [state |-> "pending", session_id |-> i.session_id,
                          message |-> i.message, env |-> i.env, pc |-> "", frame |-> <<>>,
                          http |-> 0]]
    /\ UNCHANGED <<SESSION_STATE, ledger, today, result, trace, calls,
                   returned, successes, callers>>

\* a validation that lets a message of any length through
InvalidBlankOnly(message) == ~Truthy(message) \/ Stripped(message) = <<>>

\* lines 69-73: the tests that raise HTTPException(status_code=400)
Invalid(message) ==
    \/ ~Truthy(message)
    \/ Stripped(message) = <<>>
    \/ Len(message.v) > MaxMessageLen

\* lines 69-73 and 87-88: the message is empty, whitespace or too long, the
\* handler answers 400
Reject(r) ==
    /\ requests[r].state = "pending"
    /\ LoopFree
    /\ Invalid(requests[r].message)
    /\ requests' = [requests EXCEPT ![r].state = "rejected", ![r].http = 400]
    /\ UNCHANGED <<SESSION_STATE, ledger, today, result, trace, calls,
                   returned, successes, callers>>

\* lines 69-81: the message is valid, the handler settles the session id
\* and enters process_message
Start(r) ==
    /\ requests[r].state = "pending"
    /\ LoopFree
    /\ ~Invalid(requests[r].message)
    /\ \E uuid \in ChatUuids :
         requests' = [requests EXCEPT
                         ![r].state = "running",
                         ![r].pc = "session",
                         ![r].session_id = IF @ # "" THEN @ ELSE uuid]
    /\ UNCHANGED <<SESSION_STATE, ledger, today, result, trace, calls,
                   returned, successes, callers>>

\* the arguments and the environment of the process_message call of r
InputOf(req) == MkIn(req.session_id, "", req.message, req.env)

\* the frame of a running call, on the store and the ledgers as they are now
Load(F) == [F EXCEPT !.S = SESSION_STATE, !.L = ledger]

\* one stage of process_message on a frame
RunStage(pc, F, in) ==
    CASE pc = "session" -> StageSession(SESSION_STATE, ledger, in)
      [] pc = "order" -> StageOrder(Load(F), in)
      [] pc = "capture" -> StageCapture(Load(F))
      [] pc = "respond" -> StageRespond(Load(F), in)
      [] pc = "act" -> StageAct(Load(F), today, in)

\* the state after a stage left frame F
Staged(r, F) ==
    /\ SESSION_STATE' = F.S
    /\ ledger' = F.L
    /\ requests' = [requests EXCEPT ![r].pc = StageAfter(@),
                                    ![r].frame = [F EXCEPT !.S = <<>>, !.L = <<>>]]
    /\ UNCHANGED <<today, result, trace, calls, returned, successes, callers>>

\* the handler of r runs the next stage of process_message
Advance(r) ==
    /\ Running(r)
    /\ requests[r].pc # "finish"
    /\ Staged(r, RunStage(requests[r].pc, requests[r].frame, InputOf(requests[r])))

\* the state after process_message returned out
Finished(r, out) ==
    /\ SESSION_STATE' = out.S
    /\ ledger' = out.L
    /\ result' = out.result
    /\ trace' = out.trace
    /\ requests' = [requests EXCEPT ![r].state = "done", ![r].frame = <<>>,
                                    ![r].http = 200]
    /\ calls' = calls + 1
    /\ UNCHANGED <<today, returned, successes, callers>>

\* lines 237-264 and line 83: process_message returns and so does the handler
Finish(r) ==
    /\ Running(r)
    /\ requests[r].pc = "finish"
    /\ Finished(r, TryBody(Load(requests[r].frame), InputOf(requests[r])))

NextChat ==
    \/ \E r \in RequestIds : Post(r)
    \/ \E r \in RequestIds : Reject(r)
    \/ \E r \in RequestIds : Start(r)
    \/ \E r \in RequestIds : Advance(r)
    \/ \E r \in RequestIds : Finish(r)

SpecChat == InitChat /\ [][NextChat]_vars

\* ------------------------------------------------------------- claims on the endpoint
\* no two running requests carry the same session id
OneInFlight ==
    \A r, q \in RequestIds :
        r # q /\ Running(r) /\ Running(q) => requests[r].session_id # requests[q].session_id

\* the session of a request that stays at its stage is left alone: whatever
\* changes it is a step of that request
NoInterleaving ==
    \A r \in RequestIds :
        /\ Running(r) /\ requests'[r] = requests[r]
        /\ requests[r].session_id \in DOMAIN SESSION_STATE
        => SESSION_STATE'[requests[r].session_id] = SESSION_STATE[requests[r].session_id]

\* C7: at any time at most one process_message execution is in flight for a
\* session id; the steps of two requests of the same session never
\* interleave: while one is between two of its stages nothing else touches
\* its session, so no slot update is lost and no two requests act on the
\* same observation of the slots.
C7_OneInFlight == [][OneInFlight' /\ NoInterleaving]_vars

\* a request in the middle of process_message while another request of the
\* same session waits for its handler to start
C7_Witness ==
    \E r, q \in RequestIds :
        /\ Running(r) /\ requests[r].pc = "respond"
        /\ requests[q].state = "pending"
        /\ requests[q].session_id = requests[r].session_id


\* ------------------------------------------------------------- the session store, operation by operation
\* Every function of session_manager called on its own, with arguments of
\* small samples, next to process_message calls on the same store.
\* returned: what the operation returned; trace: the operation and its
\* arguments; calls: operations so far.

\* bound of the model: store operations and pipeline calls in one behaviour
MaxOps == 2

\* a Python bool, a Python dict
Bool(b) == [t |-> "bool", v |-> b]
Dict(d) == [t |-> "dict", v |-> d]

\* clear_session: delete the session if it is there
clear_session(S, session_id) == [x \in DOMAIN S \ {session_id} |-> S[x]]

\* get_conversation_state and is_info_complete read through get_session
get_conversation_state(S, session_id) == get_session(S, session_id)[session_id].conversation_state
is_info_complete(S, session_id) ==
    LET session == get_session(S, session_id)[session_id]
    IN  session.order_id # None
        \/ (session.customer_name # None /\ session.product_name # None)

\* the session ids of the callers: s1 is the one the server has served
StoreIds == {"s1", "s2"}

\* the store after the server answered "ord-301?" and then executed a refund
\* for the same session
ServedCall ==
    process_message(Linked, [a \in ActionTypes |-> EmptyFile], 1,
                    MkIn("s1", "", MsgBroke301, [AllFine EXCEPT !.classifier = "refund"]))
Served == ServedCall.S

\* the ledger files that call left: refunds.json holds the record of the refund
ServedLedger == ServedCall.L

\* (key, value) arguments of update_session; the keys are fields of a
\* session, but for the last
UpdateSamples ==
    << [key |-> "order_id", value |-> Str(<<"O","R","D","2","0","1">>)],
       [key |-> "reason_for_action", value |-> Str(<<"b","r","o","k","e","n">>)],
       [key |-> "preferred_datetime", value |-> None],
       [key |-> "conversation_state", value |-> "completed"],
       [key |-> "conversation_history", value |-> <<>>],
       [key |-> "preferred_datetime", value |-> Str(<<"f","r","i","d","a","y">>)],
       [key |-> "nickname", value |-> Str(<<"x">>)] >>
UpdateArgs == DOMAIN UpdateSamples

\* data arguments of update_session_bulk
BulkSamples ==
    << [f \in OrderFields |-> Orders[1][f]],
       [reason_for_action |-> Str(<<"b","r","o","k","e","n">>),
        preferred_datetime |-> Str(<<"f","r","i","d","a","y">>)],
       [nickname |-> Str(<<"x">>), order_id |-> Str(<<"O","R","D","2","0","1">>)] >>
BulkArgs == DOMAIN BulkSamples

\* role arguments of add_to_conversation_history: the function takes any
Roles == {"user", "assistant", "system"}

\* state arguments of set_conversation_state: the four states and others
StateArgs == ValidStates \cup {"closed", "Completed", ""}

\* (action_id, action_type) arguments of mark_action_completed
MarkSamples ==
    << [action_id |-> Str(<<"R","E","F","-","2","0","2","5","1","2","3","0","-","0","0","0","7">>),
        action_type |-> Str(<<"initiate_refund">>)],
       [action_id |-> Str(<<"S","R","V","-","2","0","2","5","1","2","3","0","-","0","0","0","1">>),
        action_type |-> Str(<<"book_service">>)] >>
MarkArgs == DOMAIN MarkSamples

\* action_type arguments of check_missing_info_for_action
CheckArgs == ActionTypes \cup {"none"}

\* the process_message calls made next to the store operations
StoreMessages == {MsgBroke301, MsgWhy, MsgList}
StoreEnvs == {[AllFine EXCEPT !.classifier = "refund"], AllFine,
              [AllFine EXCEPT !.classifier = "refund", !.orders = "missing"],
              [AllFine EXCEPT !.orders = "corrupt"],
              [AllFine EXCEPT !.orders = "rewritten"]}

NoOp == [op |-> "none", session_id |-> "", args |-> <<>>]

\* the server has served no request, or "ord-301?", or that and the refund:
\* the store and the ledger files are those its calls left
InitStore ==
    /\ \/ SESSION_STATE = <<>> /\ ledger = [a \in ActionTypes |-> EmptyFile]
       \/ SESSION_STATE = Linked /\ ledger = [a \in ActionTypes |-> EmptyFile]
       \/ SESSION_STATE = Served /\ ledger = ServedLedger
    /\ today = 1
    /\ result = NoResult
    /\ trace = NoOp
    /\ calls = 0
    /\ returned = None
    /\ successes = NoSuccesses
    /\ callers = NoCallers
    /\ requests = NoRequests

\* the state after a store operation that left the store S and returned value
StoreReturned(op, session_id, args, S, value) ==
    /\ SESSION_STATE' = S
    /\ returned' = value
    /\ trace' = [op |-> op, session_id |-> session_id, args |-> args]
    /\ calls' = calls + 1
    /\ UNCHANGED <<ledger, today, result, successes, callers, requests>>

CreateSession ==
    /\ calls < MaxOps
    /\ \E session_id \in StoreIds :
         StoreReturned("create_session", session_id, <<>>,
                       create_session(SESSION_STATE, session_id),
                       Dict(create_session(SESSION_STATE, session_id)[session_id]))

GetSession ==
    /\ calls < MaxOps
    /\ \E session_id \in StoreIds :
         StoreReturned("get_session", session_id, <<>>,
                       get_session(SESSION_STATE, session_id),
                       Dict(get_session(SESSION_STATE, session_id)[session_id]))

UpdateSession ==
    /\ calls < MaxOps
    /\ \E session_id \in StoreIds, i \in UpdateArgs :
         StoreReturned("update_session", session_id, <<UpdateSamples[i].key>>,
                       update_session(SESSION_STATE, session_id,
                                      UpdateSamples[i].key, UpdateSamples[i].value),
                       Bool(TRUE))

UpdateSessionBulk ==
    /\ calls < MaxOps
    /\ \E session_id \in StoreIds, i \in BulkArgs :
         StoreReturned("update_session_bulk", session_id, <<DOMAIN BulkSamples[i]>>,
                       update_session_bulk(SESSION_STATE, session_id, BulkSamples[i]),
                       Bool(TRUE))

AddToConversationHistory ==
    /\ calls < MaxOps
    /\ \E session_id \in StoreIds, role \in Roles :
         StoreReturned("add_to_conversation_history", session_id, <<role, MsgWhy>>,
                       add_to_conversation_history(SESSION_STATE, session_id, role, MsgWhy),
                       None)

ClearSession ==
    /\ calls < MaxOps
    /\ \E session_id \in StoreIds :
         StoreReturned("clear_session", session_id, <<>>,
                       clear_session(SESSION_STATE, session_id),
                       Bool(session_id \in DOMAIN SESSION_STATE))

GetSessionContext ==
    /\ calls < MaxOps
    /\ \E session_id \in StoreIds :
         StoreReturned("get_session_context", session_id, <<>>,
                       get_session(SESSION_STATE, session_id),
                       List(get_session_context(SESSION_STATE, session_id)))

SetConversationState ==
    /\ calls < MaxOps
    /\ \E session_id \in StoreIds, state \in StateArgs :
         StoreReturned("set_conversation_state", session_id, <<state>>,
                       set_conversation_state(SESSION_STATE, session_id, state),
                       Bool(state \in ValidStates))

GetConversationState ==
    /\ calls < MaxOps
    /\ \E session_id \in StoreIds :
         StoreReturned("get_conversation_state", session_id, <<>>,
                       get_session(SESSION_STATE, session_id),
                       Str(<<get_conversation_state(SESSION_STATE, session_id)>>))

IsInfoComplete ==
    /\ calls < MaxOps
    /\ \E session_id \in StoreIds :
         StoreReturned("is_info_complete", session_id, <<>>,
                       get_session(SESSION_STATE, session_id),
                       Bool(is_info_complete(SESSION_STATE, session_id)))

MarkActionCompleted ==
    /\ calls < MaxOps
    /\ \E session_id \in StoreIds, i \in MarkArgs :
         StoreReturned("mark_action_completed", session_id,
                       <<MarkSamples[i].action_id, MarkSamples[i].action_type>>,
                       mark_action_completed(SESSION_STATE, session_id,
                                             MarkSamples[i].action_id,
                                             MarkSamples[i].action_type),
                       Bool(session_id \in DOMAIN SESSION_STATE))

CheckMissingInfoForAction ==
    /\ calls < MaxOps
    /\ \E session_id \in StoreIds, action_type \in CheckArgs :
         StoreReturned("check_missing_info_for_action", session_id, <<action_type>>,
                       check_missing_info_for_action(SESSION_STATE, session_id,
                                                     action_type).store,
                       Dict(check_missing_info_for_action(SESSION_STATE, session_id,
                                                          action_type).info))

\* the state after a process_message call on the store returned r
PipelineReturned(session_id, message, r) ==
    /\ SESSION_STATE' = r.S
    /\ ledger' = r.L
    /\ returned' = Dict(r.result)
    /\ trace' = [op |-> "process_message", session_id |-> session_id, args |-> <<message>>]
    /\ calls' = calls + 1
    /\ UNCHANGED <<today, result, successes, callers, requests>>

PipelineCall ==
    /\ calls < MaxOps
    /\ \E session_id \in StoreIds, message \in StoreMessages, env \in StoreEnvs :
         PipelineReturned(session_id, message,
                          process_message(SESSION_STATE, ledger, today,
                                          MkIn(session_id, "", message, env)))

NextStore ==
    \/ CreateSession
    \/ GetSession
    \/ UpdateSession
    \/ UpdateSessionBulk
    \/ AddToConversationHistory
    \/ ClearSession
    \/ GetSessionContext
    \/ SetConversationState
    \/ GetConversationState
    \/ IsInfoComplete
    \/ MarkActionCompleted
    \/ CheckMissingInfoForAction
    \/ PipelineCall

SpecStore == InitStore /\ [][NextStore]_vars


\* ------------------------------------------------------------- claims on the session store
\* a is a prefix of b
IsPrefix(a, b) == Len(a) <= Len(b) /\ SubSeq(b, 1, Len(a)) = a

\* the history of a session id in a store: none where there is no session
HistoryOf(S, sid) == IF sid \in DOMAIN S THEN S[sid].conversation_history ELSE <<>>

\* every entry of the history has one of the two roles
TwoRoles(h) == \A i \in 1..Len(h) : h[i].role \in {"user", "assistant"}

\* C13 as stated: after any store operation or process_message call the
\* previous history of every session is a prefix of its new history, and
\* every entry has role user or assistant.
C13_Original ==
    [][IsCall =>
         \A sid \in DOMAIN SESSION_STATE \cup DOMAIN SESSION_STATE' :
            /\ IsPrefix(HistoryOf(SESSION_STATE, sid), HistoryOf(SESSION_STATE', sid))
            /\ TwoRoles(HistoryOf(SESSION_STATE', sid))
      ]_vars

\* the operation of the step replaces or removes the history of sid
ReplacesHistory(sid) ==
    /\ sid = trace'.session_id
    /\ \/ trace'.op = "clear_session"
       \/ trace'.op = "update_session" /\ trace'.args[1] = "conversation_history"
       \/ trace'.op = "update_session_bulk" /\ "conversation_history" \in trace'.args[1]

\* the entries a step added to the history of sid
NewEntries(sid) ==
    SubSeq(HistoryOf(SESSION_STATE', sid),
           Len(HistoryOf(SESSION_STATE, sid)) + 1, Len(HistoryOf(SESSION_STATE', sid)))

\* C13: the previous history of every session is a prefix of its new
\* history after a process_message call (also one that ends in the error
\* payload) and after every store operation except clear_session and
\* update_session / update_session_bulk given the key conversation_history;
\* a process_message call adds to its own session the user entry and then
\* the assistant entry (the user entry alone, or nothing, when it ends in
\* the error payload) and nothing to other sessions;
\* add_to_conversation_history appends one entry with the role it is given,
\* whatever that role is; no other operation adds an entry.
C13_HistoryAppendOnly ==
    [][IsCall =>
         \A sid \in DOMAIN SESSION_STATE \cup DOMAIN SESSION_STATE' :
            \/ ReplacesHistory(sid)
            \/ /\ IsPrefix(HistoryOf(SESSION_STATE, sid), HistoryOf(SESSION_STATE', sid))
               /\ IF trace'.op = "process_message" /\ sid = trace'.session_id
                  THEN /\ TwoRoles(NewEntries(sid))
                       /\ \/ /\ returned'.v.intent # "error"
                             /\ NewEntries(sid) =
                                  << [role |-> "user", message |-> trace'.args[1]],
                                     [role |-> "assistant", message |-> returned'.v.answer] >>
                          \/ /\ returned'.v.intent = "error"
                             /\ NewEntries(sid) \in
                                  { <<>>, << [role |-> "user", message |-> trace'.args[1]] >> }
                  ELSE IF trace'.op = "add_to_conversation_history"
                          /\ sid = trace'.session_id
                  THEN NewEntries(sid) =
                          << [role |-> trace'.args[1], message |-> trace'.args[2]] >>
                  ELSE NewEntries(sid) = <<>>
      ]_vars

\* a process_message call that ended in the error payload, in a session that
\* keeps its two earlier entries in front of the user entry of that call
C13_Witness ==
    /\ trace.op = "process_message"
    /\ returned.v.intent = "error"
    /\ trace.session_id \in DOMAIN SESSION_STATE
    /\ Len(HistoryOf(SESSION_STATE, trace.session_id)) = 3
    /\ HistoryOf(SESSION_STATE, trace.session_id)[1] = [role |-> "user", message |-> MsgOrd301Q]
    /\ HistoryOf(SESSION_STATE, trace.session_id)[2].role = "assistant"
    /\ HistoryOf(SESSION_STATE, trace.session_id)[3] = [role |-> "user", message |-> MsgList]

\* the structured slots of a session
StructuredSlots == {"order_id", "customer_name", "customer_email", "customer_phone",
                    "product_id", "product_name", "serial_number", "purchase_date",
                    "warranty_years", "reason_for_action", "preferred_datetime"}

\* the step is a call of the store function op
IsOp(op) == IsCall /\ trace'.op = op

\* every session but sid is in the store as it was
OthersKept(sid) ==
    \A other \in (DOMAIN SESSION_STATE \cup DOMAIN SESSION_STATE') \ {sid} :
       /\ other \in DOMAIN SESSION_STATE /\ other \in DOMAIN SESSION_STATE'
       /\ SESSION_STATE'[other] = SESSION_STATE[other]

\* C14: get_session(session_id) always returns a session, the one the store
\* then holds under that id; for an unseen id that session is new, with
\* every structured slot, action_id and action_type null, an empty
\* conversation_history and conversation_state collecting_info; for an
\* existing id it is the session as it was; no other session changes.
C14_GetOrCreate ==
    [][IsOp("get_session") =>
         /\ returned'.t = "dict"
         /\ DOMAIN SESSION_STATE' = DOMAIN SESSION_STATE \cup {trace'.session_id}
         /\ returned'.v = SESSION_STATE'[trace'.session_id]
         /\ OthersKept(trace'.session_id)
         /\ IF trace'.session_id \in DOMAIN SESSION_STATE
            THEN SESSION_STATE'[trace'.session_id] = SESSION_STATE[trace'.session_id]
            ELSE /\ \A slot \in StructuredSlots \cup {"action_id", "action_type"} :
                       returned'.v[slot] = None
                 /\ returned'.v.conversation_history = <<>>
                 /\ returned'.v.conversation_state = "collecting_info"
                 /\ returned'.v.session_id = trace'.session_id
      ]_vars

\* get_session on the unseen id s2 in a store that holds the served s1
C14_Witness ==
    /\ calls = 1
    /\ trace.op = "get_session" /\ trace.session_id = "s2"
    /\ DOMAIN SESSION_STATE = {"s1", "s2"}
    /\ SESSION_STATE["s1"].conversation_state = "action_executed"
    /\ returned.v = SESSION_STATE["s2"]
    /\ returned.v.order_id = None /\ returned.v.conversation_history = <<>>

\* C15: set_conversation_state(session_id, state) with a state that is not
\* one of the four returns false and leaves the whole store as it was (no
\* session created, no conversation_state changed); with one of the four it
\* returns true and the session, created if it was absent, has that
\* conversation_state whatever it had before, every other field and every
\* other session unchanged.
C15_SetStateValidates ==
    [][IsOp("set_conversation_state") =>
         IF trace'.args[1] \notin ValidStates
         THEN /\ returned' = Bool(FALSE)
              /\ SESSION_STATE' = SESSION_STATE
         ELSE /\ returned' = Bool(TRUE)
              /\ DOMAIN SESSION_STATE' = DOMAIN SESSION_STATE \cup {trace'.session_id}
              /\ SESSION_STATE'[trace'.session_id] =
                    [Before(trace'.session_id) EXCEPT !.conversation_state = trace'.args[1]]
              /\ OthersKept(trace'.session_id)
      ]_vars

\* the session whose refund was executed is put back to collecting_info
C15_Witness ==
    /\ calls = 1
    /\ trace.op = "set_conversation_state" /\ trace.session_id = "s1"
    /\ trace.args[1] = "collecting_info"
    /\ returned = Bool(TRUE)
    /\ SESSION_STATE["s1"].action_id # None
    /\ SESSION_STATE["s1"].conversation_state = "collecting_info"

\* C16: mark_action_completed(session_id, action_id, action_type) on a
\* session that exists returns true and leaves the store as it was except
\* for that session's action_id and action_type, now the arguments, and its
\* conversation_state, now action_executed; on a session id that does not
\* exist it returns false and leaves the store as it was, without that id.
C16_MarkActionCompletedFrame ==
    [][IsOp("mark_action_completed") =>
         IF trace'.session_id \in DOMAIN SESSION_STATE
         THEN /\ returned' = Bool(TRUE)
              /\ SESSION_STATE' =
                    [SESSION_STATE EXCEPT ![trace'.session_id] =
                        [@ EXCEPT !.action_id = trace'.args[1],
                                  !.action_type = trace'.args[2],
                                  !.conversation_state = "action_executed"]]
         ELSE /\ returned' = Bool(FALSE)
              /\ SESSION_STATE' = SESSION_STATE
              /\ trace'.session_id \notin DOMAIN SESSION_STATE'
      ]_vars

\* the linked session, in collecting_info with no action yet, is marked
\* with a service booking: its order and its history are as they were
C16_Witness ==
    /\ calls = 1
    /\ trace.op = "mark_action_completed" /\ trace.session_id = "s1"
    /\ returned = Bool(TRUE)
    /\ SESSION_STATE["s1"].action_id = MarkSamples[2].action_id
    /\ SESSION_STATE["s1"].action_type = Str(<<"book_service">>)
    /\ SESSION_STATE["s1"].conversation_state = "action_executed"
    /\ SESSION_STATE["s1"].reason_for_action = None
    /\ SESSION_STATE["s1"].order_id = Str(<<"O","R","D","3","0","1">>)
    /\ Len(SESSION_STATE["s1"].conversation_history) = 2

\* sessions to compare with: a new one, the linked one, the served one
ReferenceSessions == {NewSession("s9"), Linked["s1"], Served["s1"]}

\* the two sessions have the same three slots
SameSlots(a, b) ==
    /\ a.order_id = b.order_id
    /\ a.reason_for_action = b.reason_for_action
    /\ a.preferred_datetime = b.preferred_datetime

\* C17: what check_missing_info_for_action returns depends on the session's
\* order_id, reason_for_action and preferred_datetime and on action_type
\* only: a call on any session with the same three slots and the same
\* action_type, whatever its session_id, conversation_state, history,
\* action_id or other fields, gives the same missing list, complete flag and
\* prompt.
C17_CheckMissingDeterministic ==
    [][IsOp("check_missing_info_for_action") =>
         /\ returned'.t = "dict"
         /\ DOMAIN returned'.v = {"missing", "complete", "prompt"}
         /\ \A other \in ReferenceSessions \cup
                         {SESSION_STATE'[x] : x \in DOMAIN SESSION_STATE'} :
               SameSlots(other, SESSION_STATE'[trace'.session_id]) =>
                  MissingInfo(other, trace'.args[1]) = returned'.v
      ]_vars

\* the slot check for a refund on the linked session after its
\* conversation_state was set to completed: the answer of the linked
\* session itself, the reason prompt
C17_Witness ==
    /\ calls = 2
    /\ trace.op = "check_missing_info_for_action" /\ trace.session_id = "s1"
    /\ trace.args[1] = "initiate_refund"
    /\ SESSION_STATE["s1"] # Linked["s1"]
    /\ SameSlots(SESSION_STATE["s1"], Linked["s1"])
    /\ SESSION_STATE["s1"].conversation_state = "completed"
    /\ returned.v = MissingInfo(Linked["s1"], "initiate_refund")
    /\ returned.v.missing = <<"reason_for_action">>
    /\ returned.v.prompt = Str(PromptRefundReason)



\* the three slots the check reads are set (TRUE) or not, in that order
SlotsSet(session) ==
    <<Truthy(session.order_id), Truthy(session.reason_for_action),
      Truthy(session.preferred_datetime)>>

\* the question about the type-specific slot
SecondQuestion(a) ==
    IF a = "initiate_refund" THEN PromptRefundReason
    ELSE IF a = "initiate_replacement" THEN PromptReplacementIssue
    ELSE PromptServiceDate

\* C21: for each of the three action types and whichever of order_id,
\* reason_for_action and preferred_datetime the session holds,
\* check_missing_info_for_action returns missing = order_id if absent, then
\* the type-specific slot (reason_for_action for a refund or a replacement,
\* preferred_datetime for a booking) if absent; complete = true iff missing
\* is empty; prompt = the Order-ID question if order_id is missing, else the
\* type-specific question if the second slot is missing, else empty; and
\* the prompt is non-empty exactly when complete is false.
C21_MissingInfoTable ==
    [][IsOp("check_missing_info_for_action") /\ trace'.args[1] \in ActionTypes =>
         /\ returned'.v.missing =
               (IF ~Truthy(SESSION_STATE'[trace'.session_id].order_id)
                THEN <<"order_id">> ELSE <<>>)
               \o (IF ~Truthy(SESSION_STATE'[trace'.session_id][SlotOf(trace'.args[1])])
                   THEN <<SlotOf(trace'.args[1])>> ELSE <<>>)
         /\ returned'.v.complete = (returned'.v.missing = <<>>)
         /\ returned'.v.prompt.v =
               IF ~Truthy(SESSION_STATE'[trace'.session_id].order_id) THEN PromptOrderId
               ELSE IF ~Truthy(SESSION_STATE'[trace'.session_id][SlotOf(trace'.args[1])])
                    THEN SecondQuestion(trace'.args[1])
               ELSE <<>>
         /\ (returned'.v.prompt.v # <<>>) <=> ~returned'.v.complete
      ]_vars

\* a booking checked on a session that holds a date and no order: order_id
\* alone is missing and the Order-ID question is asked
C21_Witness ==
    /\ calls = 2
    /\ trace.op = "check_missing_info_for_action" /\ trace.args[1] = "book_service"
    /\ SlotsSet(SESSION_STATE[trace.session_id]) = <<FALSE, FALSE, TRUE>>
    /\ returned.v.missing = <<"order_id">>
    /\ ~returned.v.complete
    /\ returned.v.prompt = Str(PromptOrderId)



\* C22 as stated: check_missing_info_for_action has no side effect: for
\* every session id, one never seen before included, and every action_type,
\* the session store after the call is the store before it.
C22_Original ==
    [][IsOp("check_missing_info_for_action") => SESSION_STATE' = SESSION_STATE]_vars

\* ------------------------------------------------------------- claims on the ledger as a log
\* C18 as stated: under serial execution every record stored in a ledger is
\* still in it, unchanged and at its position, after any later
\* execute_action call of any type, whatever the status of that call.
C18_Original ==
    [][IsExecute =>
         \A a \in ActionTypes : IsPrefix(Records(ledger[a]), Records(ledger'[a]))
      ]_vars


\* ------------------------------------------------------------- claims on the endpoint's validation
\* the messages the claim is about: empty, only whitespace, or too long
Unacceptable(message) ==
    \/ Len(message.v) = 0
    \/ \A i \in 1..Len(message.v) : message.v[i] \in Whitespace
    \/ Len(message.v) > MaxMessageLen

\* C19: the handler of a chat request whose message is empty, only
\* whitespace or longer than MaxMessageLen characters answers HTTP 400 and
\* never enters process_message: its step changes no session, no history
\* and no ledger and counts as no process_message call, and no such request
\* is ever running or done.
C19_InvalidRejected ==
    [][\A r \in RequestIds :
          /\ requests[r].state = "pending" /\ Unacceptable(requests[r].message)
             /\ requests'[r] # requests[r]
             => /\ requests'[r].state = "rejected" /\ requests'[r].http = 400
                /\ SESSION_STATE' = SESSION_STATE
                /\ ledger' = ledger
                /\ calls' = calls
          /\ requests'[r].state \in {"running", "done"} => ~Unacceptable(requests'[r].message)
      ]_vars

\* a message of 5001 characters was refused for a session that an earlier
\* request had created, and an empty one was refused too
C19_Witness ==
    \E r, q \in RequestIds :
        /\ requests[r].state = "rejected" /\ requests[r].http = 400
        /\ requests[r].message = MsgLong
        /\ requests[r].session_id = "s1"
        /\ requests[q].state = "done" /\ requests[q].session_id = "s1"
        /\ "s1" \in DOMAIN SESSION_STATE
        /\ Len(SESSION_STATE["s1"].conversation_history) = 2


\* ------------------------------------------------------------- order id extraction, message by message
\* extract_order_id_from_message applied to every message over a small
\* alphabet, and then to its own result.
\* trace: the message, the step reached, the result of the first
\* application; returned: the result of the last application.

\* bound of the model: length of the messages
MaxMsgLen == 5

\* letters of both cases, the hyphen, two of the whitespace separators, a
\* digit, another character
Alphabet == {"o", "R", "d", "-", " ", "\r", "1", "x"}

ExtractMessages == UNION {[1..k -> Alphabet] : k \in 0..MaxMsgLen}

InitExtract ==
    /\ SESSION_STATE = <<>>
    /\ ledger = [a \in ActionTypes |-> NoFile]
    /\ today = 1
    /\ result = NoResult
    /\ \E m \in ExtractMessages : trace = [op |-> "none", message |-> Str(m), first |-> None]
    /\ calls = 0
    /\ returned = None
    /\ successes = NoSuccesses
    /\ callers = NoCallers
    /\ requests = NoRequests

\* extract_order_id_from_message(message)
Extract ==
    /\ trace.op = "none"
    /\ returned' = extract_order_id_from_message(trace.message)
    /\ trace' = [trace EXCEPT !.op = "extract"]
    /\ UNCHANGED <<SESSION_STATE, ledger, today, result, calls, successes, callers, requests>>

\* extract_order_id_from_message applied to what the first call returned
ExtractAgain ==
    /\ trace.op = "extract"
    /\ returned' = extract_order_id_from_message(returned)
    /\ trace' = [trace EXCEPT !.op = "again", !.first = returned]
    /\ UNCHANGED <<SESSION_STATE, ledger, today, result, calls, successes, callers, requests>>

NextExtract == Extract \/ ExtractAgain

SpecExtract == InitExtract /\ [][NextExtract]_vars

\* ------------------------------------------------------------- claims on the extraction
\* the message holds "ord" in any case, then at most one hyphen or
\* whitespace character, then a digit
Recognizable(s) ==
    \E i \in 1..Len(s) :
       /\ i + 3 <= Len(s)
       /\ s[i] \in {"o", "O"} /\ s[i + 1] \in {"r", "R"} /\ s[i + 2] \in {"d", "D"}
       /\ \/ s[i + 3] \in Digits
          \/ s[i + 3] \in {"-"} \cup Whitespace /\ i + 4 <= Len(s) /\ s[i + 4] \in Digits

\* C20: extract_order_id_from_message returns none exactly for the messages
\* that hold no recognizable pattern; what it returns for the others is
\* "ORD" followed by digits, and applied to that result it returns the same
\* result.
C20_ExtractIdempotent ==
    /\ trace.op = "extract" =>
          /\ (returned = None) <=> ~Recognizable(trace.message.v)
          /\ returned # None =>
                /\ Len(returned.v) > 3
                /\ SubSeq(returned.v, 1, 3) = <<"O","R","D">>
                /\ \A i \in 4..Len(returned.v) : returned.v[i] \in Digits
    /\ trace.op = "again" => returned = trace.first

\* "oRd-1" gave ORD1, and ORD1 gave ORD1 again
C20_Witness ==
    /\ trace.op = "again"
    /\ trace.message = Str(<<"o","R","d","-","1">>)
    /\ trace.first = Str(<<"O","R","D","1">>)
    /\ returned = Str(<<"O","R","D","1">>)


\* ------------------------------------------------------------- the pipeline, label by label
\* process_message called with the classifier giving each label in turn:
\* the seven intents agents.intent_agent can return, and labels only a
\* substituted classifier returns (the action labels, 'error'). For a label
\* of ValidIntents the call is the one agents.intent_agent gives when the
\* model replies with that label.
FlowLabels == ValidIntents \cup ActionTypes \cup {"error"}

FlowMessages == {MsgOrd301Q, MsgOrder201, MsgOrd999, MsgWhy, MsgBroke301}

\* agents.model is None (lines 28-32): every agent takes its `if not model`
\* branch, intent_agent returns 'general_query' (lines 39-41)
NoModel ==
    [AllFine EXCEPT !.classifier = "general_query", !.responder = "NO_MODEL",
                    !.verifier = "NO_MODEL", !.confirmation = "NO_MODEL"]

\* the call of the responder or of the verifier raising
FaultyEnvs ==
    { [AllFine EXCEPT !.responder = "RAISE"],
      [AllFine EXCEPT !.verifier = "RAISE"] }

\* the notifier reporting a failure or raising; the record construction
\* of execute_action raising
ExecutionEnvs ==
    { [AllFine EXCEPT !.notifier = "not_sent"],
      [AllFine EXCEPT !.notifier = "RAISE"],
      [AllFine EXCEPT !.io.build = "raise"] }

\* every label with the collaborators working; an intent that resolves to
\* an action, one that does not and an action label with each fault; the
\* label intent_agent gives without a model; a refund and a general query
\* with data/orders.json rewritten, absent and unreadable; a refund with
\* each outcome of the notifier and with a failing execution
FlowCases ==
    { [label |-> l, env |-> AllFine] : l \in FlowLabels }
    \cup { [label |-> l, env |-> e] :
              l \in {"refund", "general_query", "initiate_refund"}, e \in FaultyEnvs }
    \cup { [label |-> "general_query", env |-> NoModel] }
    \cup { [label |-> l, env |-> [AllFine EXCEPT !.orders = case]] :
              l \in {"refund", "general_query"}, case \in DOMAIN OrderFiles \ {"two_orders"} }
    \cup { [label |-> "refund", env |-> e] : e \in ExecutionEnvs }

\* the messages with each case, and the messages that end in a space as
\* a refund and as a replacement request
FlowInputs ==
    { [message |-> m, case |-> c] : m \in FlowMessages, c \in FlowCases }
    \cup { [message |-> m, case |-> [label |-> l, env |-> AllFine]] :
              m \in {MsgPadded, MsgAsked}, l \in {"refund", "replacement"} }

InitFlow == Init

\* one process_message call for session s1 with the classifier giving label
FlowCall ==
    /\ calls < MaxCalls
    /\ \E i \in FlowInputs :
         Returned(process_message_classified(
                     SESSION_STATE, ledger, today,
                     MkIn("s1", "", i.message,
                          [i.case.env EXCEPT !.classifier = i.case.label]),
                     i.case.label))

NextFlow == FlowCall

SpecFlow == InitFlow /\ [][NextFlow]_vars

\* ------------------------------------------------------------- claims on the flow controller
\* the call of responder_agent and then the call of verifier_agent
RespondedAndVerified(calls_made) ==
    /\ Len(calls_made) = 2
    /\ calls_made[1].fn = "responder_agent"
    /\ calls_made[2].fn = "verifier_agent"

\* C23: in every request that reaches the flow controller with the
\* session's order_id known and an intent that is one of initiate_refund,
\* initiate_replacement, book_service, neither responder_agent nor
\* verifier_agent is called and the answer is the acknowledgement composed
\* from the session's customer_name, product_name and order_id; in every
\* other such request responder_agent is called with the message, the
\* retrieved context and the session's context summary, then verifier_agent
\* is called on the draft it returned.
C23_FlowControllerDecision ==
    [][IsCall /\ ~trace'.caught =>
         IF Truthy(After.order_id) /\ result'.intent \in ActionTypes
         THEN /\ trace'.bypass
              /\ trace'.generated = <<>>
              /\ result'.answer = BypassDraft(After, result'.intent)
         ELSE /\ ~trace'.bypass
              /\ RespondedAndVerified(trace'.generated)
              /\ trace'.generated[1].arg = trace'.message
              /\ trace'.generated[1].context = retrieval_agent(trace'.retriever)
              /\ trace'.generated[1].session_context =
                    get_session_context(SESSION_STATE', trace'.sid)
              /\ trace'.generated[2].arg = responder_agent(trace'.responder)
      ]_vars

\* "Why?" with the label initiate_refund in the session of order ORD301:
\* no generative call, the acknowledgement for the answer
C23_Witness ==
    /\ calls > 0 /\ ~trace.caught
    /\ trace.message = MsgWhy
    /\ result.intent = "initiate_refund"
    /\ SESSION_STATE[trace.sid].order_id = Str(<<"O","R","D","3","0","1">>)
    /\ trace.bypass /\ trace.generated = <<>>
    /\ result.answer = BypassDraft(SESSION_STATE[trace.sid], "initiate_refund")
    /\ contains(result.answer.v, <<"Ben Ott">>)

\* ------------------------------------------------------------- claims on action resolution
\* C24: the action resolved from an intent is initiate_refund for refund,
\* initiate_replacement for replacement, book_service for service_booking
\* and 'none' for every other value (general_query, troubleshoot,
\* order_status, product_information, 'error' and the action labels
\* themselves); it is the same whatever the responder and the verifier
\* answered and whatever the session holds, and the action of the result is
\* the resolved action or 'none'.
C24_IntentToAction ==
    [][IsCall /\ ~trace'.caught =>
         /\ trace'.resolved =
               IF result'.intent = "refund" THEN "initiate_refund"
               ELSE IF result'.intent = "replacement" THEN "initiate_replacement"
               ELSE IF result'.intent = "service_booking" THEN "book_service"
               ELSE "none"
         /\ result'.action \in {trace'.resolved, "none"}
         /\ result'.intent \notin {"refund", "replacement", "service_booking"} =>
               /\ trace'.exec_calls = 0
               /\ ledger' = ledger
      ]_vars

\* the label initiate_refund in a session that holds the order and the
\* reason: it resolves to 'none' and nothing is executed
C24_Witness ==
    /\ calls > 0 /\ ~trace.caught
    /\ result.intent = "initiate_refund"
    /\ Truthy(SESSION_STATE[trace.sid].order_id)
    /\ Truthy(SESSION_STATE[trace.sid].reason_for_action)
    /\ trace.resolved = "none" /\ result.action = "none"
    /\ trace.exec_calls = 0

\* ------------------------------------------------------------- claims on order linkage
\* the orders of a collection whose id is the one the message yields
Lookup(orders, message) ==
    {k \in 1..Len(orders) : Truthy(Extracted(message)) /\ orders[k].order_id = Extracted(message)}

\* what load_orders gave in the call a trace is of
Loaded(t) == load_orders(OrderFiles[t.orders])

\* those of the collection the call found in data/orders.json
Hits(message) == Lookup(Loaded(trace'), message)

\* the nine order fields of the two sessions are the same
SameOrderFields(a, b) == \A f \in OrderFields : a[f] = b[f]

\* the call has the message and the session of the call before it
SameMessageAgain == trace'.message = trace.message /\ trace'.sid = trace.sid

\* the lookup of the call gives what the lookup of the call before it gave
SameRecord ==
    {Loaded(trace')[k] : k \in Lookup(Loaded(trace'), trace'.message)}
       = {Loaded(trace)[k] : k \in Lookup(Loaded(trace), trace'.message)}

\* the call links the order its lookup hit; when the message yields no id
\* or the lookup misses it leaves the nine fields alone and does not make
\* the id it extracted the order_id of the session
LinksWhatItFinds ==
    /\ \A k \in Hits(trace'.message) :
          \A f \in OrderFields : After[f] = Loaded(trace')[k][f]
    /\ Hits(trace'.message) = {} =>
          /\ SameOrderFields(After, Before(trace'.sid))
          /\ Truthy(Extracted(trace'.message))
                /\ Before(trace'.sid).order_id # Extracted(trace'.message)
                => After.order_id # Extracted(trace'.message)

\* C25 as stated: when the message of a call yields an order id that an
\* order has, the nine order fields of the session are the values of that
\* order after the call, and a next call with the same message leaves the
\* nine with the same values; when the message yields no id, or an id that
\* no order has, the nine are as they were before the call, and order_id
\* is not the unknown id.
C25_Original ==
    [][IsCall /\ ~trace'.caught =>
         /\ LinksWhatItFinds
         /\ SameMessageAgain => SameOrderFields(After, Before(trace'.sid))
      ]_vars

\* C25: when the message of a call yields an order id that an order of
\* data/orders.json has, the nine order fields of the session (order_id,
\* customer_name, customer_email, customer_phone, product_id, product_name,
\* serial_number, purchase_date, warranty_years) are the values of that
\* order after the call, whatever they were before, and a next call with
\* the same message whose lookup gives the same record leaves the nine with
\* the same values; when the message yields no id, or an id that no order
\* has, the nine are as they were before the call, and order_id is not the
\* unknown id.
C25_OrderLinkage ==
    [][IsCall /\ ~trace'.caught =>
         /\ LinksWhatItFinds
         /\ SameMessageAgain /\ SameRecord => SameOrderFields(After, Before(trace'.sid))
      ]_vars

\* "ord-301?" arrived twice in a new session with data/orders.json the same:
\* after the second call the nine fields are still those of ORD301
C25_Witness ==
    /\ calls = 2 /\ ~trace.caught
    /\ trace.message = MsgOrd301Q /\ trace.orders = "two_orders"
    /\ Len(History(SESSION_STATE[trace.sid])) = 4
    /\ History(SESSION_STATE[trace.sid])[1].message = MsgOrd301Q
    /\ History(SESSION_STATE[trace.sid])[3].message = MsgOrd301Q
    /\ \A f \in OrderFields : SESSION_STATE[trace.sid][f] = Orders[2][f]
    /\ SESSION_STATE[trace.sid].customer_email = None

\* ------------------------------------------------------------- claims on the generative collaborators
\* the draft handed to the verifier, what the verifier step left
Draft == trace'.generated[2].arg
Verified == trace'.verified

\* C26: in a call that does not take the bypass, a responder that fails
\* gives its canned apology for the draft and verifier_agent is still called
\* on that draft; a verifier that fails gives the draft, unchanged, for the
\* verified response; in both cases the call returns a result whose intent
\* is the classified one and that is not the payload of the top-level
\* handler (intent 'error'), the action is resolved from the intent, and
\* for an action type the slot check runs: the answer is its prompt, or the
\* action is executed once; without an action the answer is the verified
\* response.
C26_GenerativeFaultsFallBack ==
    [][IsCall /\ ~trace'.caught /\ ~trace'.bypass =>
         /\ RespondedAndVerified(trace'.generated)
         /\ trace'.responder = "RAISE" => Draft = ApologyResponder
         /\ trace'.responder = "NO_MODEL" => Draft = ApologyNoModel
         /\ trace'.responder \notin {"RAISE", "NO_MODEL"} => Draft = Str(<<trace'.responder>>)
         /\ trace'.verifier \in {"RAISE", "NO_MODEL"} => Verified = Draft
         /\ trace'.verifier \notin {"RAISE", "NO_MODEL"} => Verified = Str(<<trace'.verifier>>)
         /\ ~trace'.raised
         /\ result'.intent = trace'.classifier /\ result' # ErrorPayload(trace'.sid)
         /\ (trace'.resolved \in ActionTypes) <=>
               (result'.intent \in {"refund", "replacement", "service_booking"})
         /\ IF trace'.resolved \in ActionTypes
            THEN IF trace'.complete
                 THEN trace'.exec_calls = 1 /\ result'.action = trace'.resolved
                 ELSE /\ trace'.exec_calls = 0 /\ result'.action = "none"
                      /\ result'.answer.v = ExpectedPrompt(After, trace'.resolved)
            ELSE result'.answer = Verified
      ]_vars

\* the responder failed on "Why?" with a refund intent in the session of
\* ORD301: the verifier got the apology, the refund was resolved and the
\* slot check asked for the reason
C26_Witness ==
    /\ calls > 0 /\ ~trace.caught /\ ~trace.bypass
    /\ trace.responder = "RAISE"
    /\ trace.generated[2].fn = "verifier_agent"
    /\ trace.generated[2].arg = ApologyResponder
    /\ result.intent = "refund"
    /\ trace.resolved = "initiate_refund" /\ ~trace.complete
    /\ result.answer = Str(PromptRefundReason)

\* ------------------------------------------------------------- claims on the notifier
\* what a session holds about its action
ActionMark(session) ==
    [action_id |-> session.action_id, action_type |-> session.action_type,
     conversation_state |-> session.conversation_state]

\* C27: whether the notifier returns success, returns a failure or raises,
\* a call that executed its action with status 'success' returns the
\* confirmation with the id for the answer, the resolved action and the
\* action_log of the execution (status 'success', no error), and leaves the
\* session with that action_id, that action_type and conversation_state
\* action_executed; the notifier is called once in such a call and in no
\* other, with that id, when the ledger holds the record with that id and
\* the session is not yet marked (its action_id, action_type and
\* conversation_state are those it had before the call).
C27_NotifierNeverSurfaces ==
    [][IsCall =>
         /\ trace'.notified # <<>> => trace'.exec_calls = 1 /\ Succeeded(result')
         /\ trace'.exec_calls = 1 /\ Succeeded(result') =>
               /\ Len(trace'.notified) = 1
               /\ trace'.notified[1].outcome \in {"sent", "not_sent", "RAISE"}
               /\ trace'.notified[1].id = result'.action_log.v.action_id
               /\ trace'.notified[1].stored
               /\ trace'.notified[1].session = ActionMark(Before(trace'.sid))
               /\ result'.answer = SuccessAnswer(trace'.resolved, result'.action_log.v.action_id)
               /\ result'.action = trace'.resolved
               /\ "error" \notin DOMAIN result'.action_log.v
               /\ ActionMark(After) =
                     [action_id |-> result'.action_log.v.action_id,
                      action_type |-> Str(<<trace'.resolved>>),
                      conversation_state |-> "action_executed"]
      ]_vars

\* the notifier raised after a refund was stored: the answer is the
\* confirmation and the session is marked
C27_Witness ==
    /\ calls > 0
    /\ Len(trace.notified) = 1 /\ trace.notified[1].outcome = "RAISE"
    /\ trace.notified[1].fn = "send_refund_confirmation_email"
    /\ trace.notified[1].session.conversation_state = "collecting_info"
    /\ Succeeded(result)
    /\ result.answer = SuccessAnswer("initiate_refund", result.action_log.v.action_id)
    /\ SESSION_STATE[trace.sid].conversation_state = "action_executed"
    /\ SESSION_STATE[trace.sid].action_id = result.action_log.v.action_id

\* ------------------------------------------------------------- claims on a failing execution
\* the step is a call whose execute_action raised while building the record
BuildRaised == IsCall /\ trace'.exec_calls = 1 /\ trace'.io.build = "raise"

\* the answer ends with the apology of line 234
Apologizes(answer) ==
    answer.t = "str" /\ Len(answer.v) > 0 /\ answer.v[Len(answer.v)] = ApologyAct[1]

\* what such a call leaves: action_log with status 'failed' and the error,
\* no record added to a ledger, the session's action_id, action_type and
\* conversation_state those it had before the call
FailedAndUnrecorded ==
    /\ result'.action_log.t = "dict"
    /\ result'.action_log.v.status = "failed"
    /\ result'.action_log.v.error = "RuntimeError"
    /\ \A a \in ActionTypes : Added(a) = {} /\ ledger'[a] = ledger[a]
    /\ ActionMark(After) = ActionMark(Before(trace'.sid))

\* C28: whenever execute_action fails with an exception during record
\* construction, the result's action_log has status 'failed' with the error
\* message, the answer ends with the generic apology, no record is added to
\* the ledger and the session is not marked as action_executed.
C28_Original ==
    [][BuildRaised => FailedAndUnrecorded /\ Apologizes(result'.answer)]_vars


\* ------------------------------------------------------------- claims on ids and unreadable ledgers
\* C29: when the ledger file of the action type is missing or corrupt as
\* execute_action starts, the id the call allocates is that of the type and
\* the day with sequence 1, and it is not the fallback ERR-YYYYMMDD-0000.
C29_Original ==
    [][IsExecute /\ ledger[returned'.v.action].state \in {"missing", "corrupt"}
        => /\ returned'.v.action_id.v = IdOf(returned'.v.action, today, 1)
           /\ ~ErrorFallback(returned'.v.action_id.v)
      ]_vars


\* ------------------------------------------------------------- claims on a failed append
\* the step is a call whose execute_action returned status 'partial'
AppendFailed ==
    /\ IsCall /\ trace'.exec_calls = 1
    /\ result'.action_log.t = "dict" /\ result'.action_log.v.status = "partial"

\* what the pipeline does with it: the id allocated is in action_log, the
\* answer is not the success confirmation, the notifier is not called, the
\* session's action_id, action_type and conversation_state are kept
SurfacedAsPartial ==
    /\ result'.action_log.v.action_id =
          Str(generate_action_id(ledger[trace'.resolved], today,
                                 ErrDay(today, trace'.io), trace'.resolved,
                                 trace'.io.gen_read))
    /\ result'.answer # SuccessAnswer(trace'.resolved, result'.action_log.v.action_id)
    /\ result'.answer = trace'.verified
    /\ trace'.notified = <<>>
    /\ ActionMark(After) = ActionMark(Before(trace'.sid))

\* C30: when the append to the ledger fails after an id was allocated,
\* execute_action returns status 'partial' with that id and the ledger
\* content is unchanged; the pipeline returns action_log with status
\* 'partial', does not replace the answer by the success confirmation, does
\* not call the notifier and leaves the session's action_id, action_type
\* and conversation_state as they were.
C30_Original ==
    [][AppendFailed => SurfacedAsPartial /\ ledger' = ledger]_vars

\* ------------------------------------------------------------- claims on the history of a session
\* user, assistant, user, assistant, ...
Alternates(h) ==
    /\ Len(h) % 2 = 0
    /\ \A i \in 1..Len(h) : h[i].role = IF i % 2 = 1 THEN "user" ELSE "assistant"

\* C31: every process_message call that returns a result other than the
\* error payload keeps the history its session had and adds two entries to
\* it: the user entry with the inbound message, then the assistant entry
\* with the returned answer; a history that alternated user, assistant
\* before such a call alternates after it.
C31_TwoEntriesPerCall ==
    [][IsCall /\ ~trace'.caught =>
         /\ IsPrefix(History(Before(trace'.sid)), History(After))
         /\ NewEntries(trace'.sid) =
               << [role |-> "user", message |-> trace'.message],
                  [role |-> "assistant", message |-> result'.answer] >>
         /\ Alternates(History(Before(trace'.sid))) => Alternates(History(After))
      ]_vars

\* two calls served a session: its second answer, the confirmation of an
\* execution, is the fourth entry of an alternating history
C31_Witness ==
    /\ calls = 2 /\ ~trace.caught
    /\ trace.sid \in DOMAIN SESSION_STATE
    /\ Len(SESSION_STATE[trace.sid].conversation_history) = 4
    /\ Alternates(SESSION_STATE[trace.sid].conversation_history)
    /\ trace.exec_calls = 1 /\ Succeeded(result)
    /\ result.answer # trace.verified
    /\ SESSION_STATE[trace.sid].conversation_history[4].message = result.answer

\* ------------------------------------------------------------- claims on the states of a session
\* the session is collecting or has executed, and has executed exactly
\* when it holds an action id
CollectingOrExecuted(session) ==
    /\ session.conversation_state \in {"collecting_info", "action_executed"}
    /\ session.conversation_state = "action_executed" <=> session.action_id # None

\* C32: in every store process_message calls reach, each session's
\* conversation_state is collecting_info or action_executed (never
\* ready_for_action or completed) and is action_executed exactly when its
\* action_id is not null; a session that is action_executed before a call
\* is action_executed after it.
C32_TwoStatesOfASession ==
    /\ [](\A sid \in DOMAIN SESSION_STATE : CollectingOrExecuted(SESSION_STATE[sid]))
    /\ [][\A sid \in DOMAIN SESSION_STATE :
             SESSION_STATE[sid].conversation_state = "action_executed"
                => /\ sid \in DOMAIN SESSION_STATE'
                   /\ SESSION_STATE'[sid].conversation_state = "action_executed"]_vars

\* a session that executed a refund has answered one more message, a
\* question that executes nothing, and is still action_executed
C32_Witness ==
    /\ calls = 2 /\ trace.exec_calls = 0 /\ ~trace.caught
    /\ trace.sid \in DOMAIN SESSION_STATE
    /\ SESSION_STATE[trace.sid].conversation_state = "action_executed"
    /\ SESSION_STATE[trace.sid].action_id # None
    /\ Len(SESSION_STATE[trace.sid].conversation_history) = 4

\* ------------------------------------------------------------- claims on order and captured slots
\* without an order the session holds neither a reason nor a date
NoOrderNoCapture(session) ==
    session.order_id = None =>
       session.reason_for_action = None /\ session.preferred_datetime = None

\* the order of a session that has one is never taken away
OrderStays ==
    \A sid \in DOMAIN SESSION_STATE :
       SESSION_STATE[sid].order_id # None
          => sid \in DOMAIN SESSION_STATE' /\ SESSION_STATE'[sid].order_id # None

\* C33: a session without order_id has no reason_for_action and no
\* preferred_datetime; an order_id that is set is never null again; a
\* reason_for_action or preferred_datetime that is set, that is, holds a
\* non-empty value, is kept by every call, also by one whose message names
\* another known order and replaces the order.
C33_OrderAndCaptures ==
    /\ [](\A sid \in DOMAIN SESSION_STATE : NoOrderNoCapture(SESSION_STATE[sid]))
    /\ [][OrderStays]_vars
    /\ [][IsCall =>
            \A sid \in DOMAIN SESSION_STATE :
               \A k \in {"reason_for_action", "preferred_datetime"} :
                  Truthy(SESSION_STATE[sid][k]) => SESSION_STATE'[sid][k] = SESSION_STATE[sid][k]]_vars

\* the session's order was replaced by a message that carries a date word
\* and is no question, and the reason and date of the first message stayed
C33_Witness ==
    /\ calls = 2 /\ ~trace.caught
    /\ trace.message = MsgOrder201
    /\ SESSION_STATE[trace.sid].order_id = Str(<<"O","R","D","2","0","1">>)
    /\ SESSION_STATE[trace.sid].reason_for_action = Str(Stripped(MsgBroke301))
    /\ SESSION_STATE[trace.sid].preferred_datetime = Str(Stripped(MsgBroke301))

\* ------------------------------------------------------------- claims on the session's action and the ledger
\* the ledger of the session's action_type holds a record with its action_id
Recorded(session, L) ==
    \E i \in 1..Len(Records(L[session.action_type.v[1]])) :
       Records(L[session.action_type.v[1]])[i].id = session.action_id

\* the action_id of the call's session is that of the execution the call
\* completed with status 'success', or the one it had
LastSuccess ==
    IsCall /\ trace'.sid \in DOMAIN SESSION_STATE' =>
       After.action_id = IF trace'.exec_calls = 1 /\ Succeeded(result')
                         THEN result'.action_log.v.action_id
                         ELSE Before(trace'.sid).action_id

\* C34 as stated: in every state serial process_message calls reach, the
\* ledger of the action_type of a session whose action_id is not null holds
\* a record with that id, and the id is that of the session's most recent
\* execution that completed with status 'success'.
C34_Original ==
    /\ [](\A sid \in DOMAIN SESSION_STATE :
             SESSION_STATE[sid].action_id # None => Recorded(SESSION_STATE[sid], ledger))
    /\ [][LastSuccess]_vars


\* ------------------------------------------------------------- claims on the result's action
\* C35: in every result process_message returns, action is none or one of
\* the three action types, and it is not none exactly when action_log is
\* not null, which is exactly when execute_action ran in the call.
C35_ActionIffActionLog ==
    calls > 0 =>
       /\ result.action \in ActionTypes \cup {"none"}
       /\ result.action # "none" <=> result.action_log # None
       /\ result.action # "none" <=> trace.exec_calls = 1

\* an execution whose append failed: the action is reported with an
\* action_log of status 'partial'
C35_Witness ==
    /\ calls > 0
    /\ result.action = "initiate_refund"
    /\ result.action_log # None
    /\ result.action_log.v.status = "partial"
    /\ trace.exec_calls = 1

\* ------------------------------------------------------------- claims on capture in the turn of the order
\* the step is a call on a session without an order, with a message of
\* more than ReasonMinLen characters that names an order the shop has,
\* classified as refund or replacement
NamesOrderAndAsksAction ==
    /\ IsCall /\ ~trace'.caught
    /\ Before(trace'.sid).order_id = None
    /\ trace'.message.t = "str" /\ Len(trace'.message.v) > ReasonMinLen
    /\ Hits(trace'.message) # {}
    /\ trace'.classifier \in {"refund", "replacement"}

\* the call ran execute_action and did not answer with a slot question
ExecutedInTheTurn ==
    /\ trace'.complete /\ trace'.exec_calls = 1
    /\ result'.action = trace'.resolved
    /\ result'.answer # Str(PromptRefundReason)
    /\ result'.answer # Str(PromptReplacementIssue)
    /\ result'.answer # Str(PromptOrderId)

\* C36 as stated: such a message that does not end in '?' is stored as it
\* is in reason_for_action by the call, and the action is executed in that
\* call without a slot question being returned. Lines 67-68 test and store
\* message.strip(): a message that ends in a space is stored without it,
\* and one that ends in '? ' is not stored and gets the reason question.
C36_Original ==
    [][NamesOrderAndAsksAction /\ ~endswith(trace'.message.v, <<"?">>)
        => After.reason_for_action = trace'.message /\ ExecutedInTheTurn]_vars

\* ------------------------------------------------------------- claims on repeated executions
\* the session holds the slots the action type requires
SlotsPresent(session, action_type) ==
    /\ Truthy(session.order_id)
    /\ action_type \in {"initiate_refund", "initiate_replacement"}
          => Truthy(session.reason_for_action)
    /\ action_type = "book_service" => Truthy(session.preferred_datetime)

\* the ids of the records of a ledger file
IdsIn(file) == {Records(file)[i].id : i \in 1..Len(Records(file))}

\* execute_action runs in the call exactly when the call's message is
\* classified with an intent that resolves to an action type and the
\* session holds the slots of that type once the call has captured what
\* the message gives
ExecutesIffSlots ==
    trace'.exec_calls = 1 <=>
       trace'.resolved \in ActionTypes /\ SlotsPresent(After, trace'.resolved)

\* the call's refund succeeded on a session that was already action_executed
RefundsAgain ==
    /\ Before(trace'.sid).conversation_state = "action_executed"
    /\ trace'.resolved = "initiate_refund"
    /\ trace'.exec_calls = 1 /\ Succeeded(result')

\* C37 as stated: execute_action runs in a call exactly when the call's own
\* message is classified with an action intent and the required slots are
\* present, whatever conversation_state the session is in; in a session
\* that is already action_executed a call whose refund succeeds adds one
\* record to the refund ledger, under an id no record had and other than
\* the session's action_id, which from then on is the new id.
C37_Original ==
    [][IsCall /\ ~trace'.caught =>
         /\ ExecutesIffSlots
         /\ RefundsAgain =>
               /\ Cardinality(Added("initiate_refund")) = 1
               /\ \A i \in Added("initiate_refund") :
                     Records(ledger'["initiate_refund"])[i].id = result'.action_log.v.action_id
               /\ After.action_id = result'.action_log.v.action_id
               /\ result'.action_log.v.action_id \notin IdsIn(ledger["initiate_refund"])
               /\ result'.action_log.v.action_id # Before(trace'.sid).action_id
      ]_vars


\* ------------------------------------------------------------- claims on sessions side by side
\* C38: a process_message call leaves every session other than its own as
\* it was, slot by slot, with its history, action_id, action_type and
\* conversation_state; the ledgers are shared, so the id a call allocates
\* counts the records other sessions stored that day.
C38_SessionIsolation ==
    [][IsCall =>
         /\ \A sid \in DOMAIN SESSION_STATE \ {trace'.sid} :
               sid \in DOMAIN SESSION_STATE' /\ SESSION_STATE'[sid] = SESSION_STATE[sid]
         /\ DOMAIN SESSION_STATE' \subseteq DOMAIN SESSION_STATE \cup {trace'.sid}
         /\ (trace'.exec_calls = 1 /\ Succeeded(result')
             /\ trace'.io.gen_read = "ok" /\ ledger[trace'.resolved].state # "corrupt")
            => result'.action_log.v.action_id.v =
                  IdOf(trace'.resolved, today, CountToday(ledger[trace'.resolved], today) + 1)
      ]_vars

\* two sessions, each with a refund of its own: the second to ask got
\* sequence 2, and the first still holds its order and its id
C38_Witness ==
    /\ calls = 2 /\ trace.sid = "s1" /\ ~trace.caught
    /\ {"s1", "session_u1"} \subseteq DOMAIN SESSION_STATE
    /\ SESSION_STATE["session_u1"].action_id = Str(IdOf("initiate_refund", today, 1))
    /\ SESSION_STATE["session_u1"].order_id = Str(<<"O","R","D","2","0","1">>)
    /\ SESSION_STATE["s1"].action_id = Str(IdOf("initiate_refund", today, 2))
    /\ SESSION_STATE["s1"].order_id = Str(<<"O","R","D","3","0","1">>)
    /\ Len(SESSION_STATE["session_u1"].conversation_history) = 2

\* ------------------------------------------------------------- claims on the bypass and execution
\* C39: a call that takes the flow controller's bypass has an action label
\* for its intent, resolves to no action and runs no execute_action: it
\* returns the acknowledgement with action none and no action_log and
\* leaves the ledgers and the session's action as they were; a call whose
\* classifier gives one of the seven intents takes no bypass and calls
\* responder_agent.
C39_BypassNeverExecutes ==
    [][IsCall /\ ~trace'.caught =>
         /\ trace'.bypass =>
               /\ result'.intent \in ActionTypes
               /\ trace'.resolved = "none" /\ trace'.exec_calls = 0
               /\ result'.action = "none" /\ result'.action_log = None
               /\ result'.action_confirmation = None
               /\ contains(result'.answer.v, <<" request now. Please wait a moment...">>)
               /\ ledger' = ledger
               /\ ActionMark(After) = ActionMark(Before(trace'.sid))
         /\ trace'.exec_calls = 1 => ~trace'.bypass
         /\ trace'.classifier \in ValidIntents =>
               /\ ~trace'.bypass
               /\ trace'.generated # <<>> /\ trace'.generated[1].fn = "responder_agent"
      ]_vars

\* a session with order and reason, every slot of a refund, is told its
\* refund is being processed: bypass taken, nothing executed, no record
C39_Witness ==
    /\ calls > 0 /\ ~trace.caught /\ trace.bypass
    /\ trace.classifier = "initiate_refund"
    /\ SlotsPresent(SESSION_STATE[trace.sid], "initiate_refund")
    /\ SESSION_STATE[trace.sid].action_id = None
    /\ result.action = "none" /\ trace.exec_calls = 0
    /\ Records(ledger["initiate_refund"]) = <<>>
    /\ contains(result.answer.v, <<").\n\nI'm processing your ", "refund",
                                    " request now. Please wait a moment...">>)

\* ------------------------------------------------------------- claims on records under interleaving
\* no execute_action call is in progress
AllReturned == \A c \in Callers : callers[c].pc \in {"idle", "returned"}

\* the record the last call of caller c built is in the ledger of its type
RecordKept(c) ==
    \E i \in 1..Len(Records(ledger[callers[c].action])) :
       Records(ledger[callers[c].action])[i] =
          ActionData(callers[c].action, callers[c].action_id, CallerDetails(c), today)

\* C40 as stated: once the execute_action calls that interleaved their
\* read, append and write of a ledger have all returned, the record of each
\* call that returned status 'success' is in the ledger.
C40_Original ==
    AllReturned =>
        \A c \in Callers :
            callers[c].pc = "returned" /\ callers[c].status = "success" => RecordKept(c)

====
